---- MODULE Spec2Model ----
(***************************************************************************)
(* Conversation persistence and context-window management of PyPoe.        *)
(*                                                                         *)
(*  - SpecSel : the context window selector of the Slack bot               *)
(*              (PyPoeSlackBot._truncate_conversation_context).            *)
(*  - Spec    : the media-aware store (EnhancedHistoryManager): schema     *)
(*              creation and migration, message append with media          *)
(*              download, conversation deletion, media statistics.         *)
(*  - SpecMig : the same store opened on a database of the basic schema.   *)
(*  - SpecTasks: two tasks calling the store, taken apart at the awaits:   *)
(*              the lock, the transaction, cancellation.                   *)
(*  - SpecWin : appends within and across seconds, and the windowed read.  *)
(***************************************************************************)
EXTENDS Integers, Sequences, FiniteSets, TLC

VARIABLES
    \* ---- context window selector (slack/bot.py) ----
    sel_pc,        \* "start" | "done"
    model_name,    \* the model the context is truncated for
    messages,      \* the caller's message list (the argument)
    result,        \* the list the selector returned
    sel_in,        \* the argument as it was when the call was made
    sel_limits,    \* the limits _get_model_limits resolved for model_name
    \* ---- store (poe/enhanced_history.py) ----
    schema,        \* table name -> set of column names ({} = no such table)
    conversations, \* rows of table conversations
    msg_rows,      \* rows of table messages
    media_files,   \* rows of table media_files
    next_msg_id,   \* sqlite_sequence of messages (AUTOINCREMENT)
    next_conv,     \* how many conversation ids uuid4 has handed out
    disk,          \* names of the files present in the media directory
    clock,         \* CURRENT_TIMESTAMP, in whole seconds
    last,          \* the last operation: its arguments, what it did, its outcome
    \* ---- tasks of the event loop that call the store ----
    lock,          \* self._lock: the task that holds it, or Free
    pc,            \* task -> where the task is in its store call
    call,          \* task -> the arguments and the progress of its store call
    txn,           \* the open connection's uncommitted view of the tables
    \* ---- the applications on top of the store ----
    remote,        \* the calls made to the remote bot (fp.get_bot_response), in order
    session        \* what an application keeps in memory between its handlers

selVars   == <<sel_pc, model_name, messages, result, sel_in, sel_limits>>
storeVars == <<schema, conversations, msg_rows, media_files,
               next_msg_id, next_conv, disk, clock, last>>
taskVars  == <<lock, pc, call, txn>>
appVars   == <<remote, session>>
vars      == <<selVars, storeVars, taskVars, appVars>>

(***************************************************************************)
(* Strings.  Python's str operations used by the code, on TLA+ strings.    *)
(***************************************************************************)

\* Python: part in s
Contains(s, part) ==
    \E i \in 1..(Len(s) - Len(part) + 1) : SubSeq(s, i, i + Len(part) - 1) = part

\* Python: s.split("-")
RECURSIVE SplitDash(_, _, _)
SplitDash(s, i, start) ==
    IF i > Len(s) THEN <<SubSeq(s, start, Len(s))>>
    ELSE IF SubSeq(s, i, i) = "-"
         THEN <<SubSeq(s, start, i - 1)>> \o SplitDash(s, i + 1, i + 1)
         ELSE SplitDash(s, i + 1, start)

\* Python: xs[:2]
FirstTwo(xs) == SubSeq(xs, 1, IF Len(xs) < 2 THEN Len(xs) ELSE 2)

(***************************************************************************)
(* Context window selector.                                                *)
(*                                                                         *)
(* A message is [role, content]; the selector reads of the content only    *)
(* its length, so a content is [chars |-> len(content), tag |-> t], the    *)
(* tag telling apart texts of equal length.                                *)
(***************************************************************************)

\* self.model_context_limits, in insertion order
model_context_limits == <<
    [name |-> "GPT-3.5-Turbo",     max_tokens |-> 12000,  max_messages |-> 40],
    [name |-> "GPT-4",             max_tokens |-> 100000, max_messages |-> 200],
    [name |-> "GPT-4o",            max_tokens |-> 100000, max_messages |-> 200],
    [name |-> "GPT-4o-mini",       max_tokens |-> 100000, max_messages |-> 200],
    [name |-> "o1-preview",        max_tokens |-> 100000, max_messages |-> 200],
    [name |-> "o1-mini",           max_tokens |-> 100000, max_messages |-> 200],
    [name |-> "GPT-4-Turbo",       max_tokens |-> 100000, max_messages |-> 200],
    [name |-> "Claude-3-Opus",     max_tokens |-> 150000, max_messages |-> 300],
    [name |-> "Claude-3-Sonnet",   max_tokens |-> 150000, max_messages |-> 300],
    [name |-> "Claude-3-Haiku",    max_tokens |-> 150000, max_messages |-> 300],
    [name |-> "Claude-3.5-Sonnet", max_tokens |-> 150000, max_messages |-> 300],
    [name |-> "Claude-3.5-Haiku",  max_tokens |-> 150000, max_messages |-> 300],
    [name |-> "Gemini-1.5-Pro",    max_tokens |-> 800000, max_messages |-> 500],
    [name |-> "Gemini-1.5-Flash",  max_tokens |-> 800000, max_messages |-> 500],
    [name |-> "Gemini-2.0-Flash",  max_tokens |-> 800000, max_messages |-> 500],
    [name |-> "Default",           max_tokens |-> 12000,  max_messages |-> 40] >>

chars_per_token == 4
overhead_tokens == 10

_estimate_message_tokens(message) ==
    LET base_tokens == message.content.chars \div chars_per_token
    IN  base_tokens + overhead_tokens

TableIndex(name) ==
    {i \in 1..Len(model_context_limits) : model_context_limits[i].name = name}

Limits(i) == [max_tokens   |-> model_context_limits[i].max_tokens,
              max_messages |-> model_context_limits[i].max_messages]

_get_model_limits(name) ==
    IF TableIndex(name) # {}
    THEN Limits(CHOOSE i \in TableIndex(name) : TRUE)
    ELSE LET family == {i \in 1..Len(model_context_limits) :
                          /\ model_context_limits[i].name # "Default"
                          /\ LET parts == FirstTwo(SplitDash(model_context_limits[i].name, 1, 1))
                             IN  \E p \in 1..Len(parts) : Contains(name, parts[p])}
         IN  IF family # {}
             THEN Limits(CHOOSE i \in family : \A j \in family : i <= j)
             ELSE Limits(CHOOSE i \in TableIndex("Default") : TRUE)

\* sum(self._estimate_message_tokens(msg) for msg in msgs[lo..hi]); the range is
\* halved so that the evaluation depth stays logarithmic in the list length.
RECURSIVE SumTokens(_, _, _)
SumTokens(msgs, lo, hi) ==
    IF lo > hi THEN 0
    ELSE IF lo = hi THEN _estimate_message_tokens(msgs[lo])
    ELSE LET mid == (lo + hi) \div 2
         IN  SumTokens(msgs, lo, mid) + SumTokens(msgs, mid + 1, hi)

\* One iteration of `for message in reversed(messages)`; stopped is the break.
WindowStep(st, message, max_tokens, max_messages) ==
    LET message_tokens == _estimate_message_tokens(message)
    IN  IF st.stopped THEN st
        ELSE IF \/ Len(st.truncated_messages) >= max_messages
                \/ st.total_tokens + message_tokens > max_tokens
             THEN [st EXCEPT !.stopped = TRUE]
             ELSE [truncated_messages |-> <<message>> \o st.truncated_messages,
                   total_tokens       |-> st.total_tokens + message_tokens,
                   stopped            |-> FALSE]

\* The iterations over msgs[hi], msgs[hi-1], ..., msgs[lo], in that order
\* (the range is halved, newer half first).
RECURSIVE WindowLoop(_, _, _, _, _, _)
WindowLoop(msgs, lo, hi, st, max_tokens, max_messages) ==
    IF lo > hi \/ st.stopped THEN st
    ELSE IF lo = hi THEN WindowStep(st, msgs[lo], max_tokens, max_messages)
    ELSE LET mid == (lo + hi) \div 2
         IN  WindowLoop(msgs, lo, mid,
                        WindowLoop(msgs, mid + 1, hi, st, max_tokens, max_messages),
                        max_tokens, max_messages)

SlidingWindow(msgs, max_tokens, max_messages) ==
    WindowLoop(msgs, 1, Len(msgs),
               [truncated_messages |-> <<>>, total_tokens |-> 0, stopped |-> FALSE],
               max_tokens, max_messages).truncated_messages

\* A variant without the "take the most recent message anyway" fallback.
TruncateNoFallback(msgs, name) ==
    LET limits == _get_model_limits(name)
    IN  [ret  |-> SlidingWindow(msgs, limits.max_tokens, limits.max_messages),
         arg  |-> msgs]

\* A variant that always runs the sliding window and keeps the window newest first.
TruncateReversed(msgs, name) ==
    LET limits == _get_model_limits(name)
        w      == SlidingWindow(msgs, limits.max_tokens, limits.max_messages)
        t      == IF w = <<>> /\ msgs # <<>> THEN SubSeq(msgs, Len(msgs), Len(msgs)) ELSE w
    IN  [ret |-> [k \in 1..Len(t) |-> t[Len(t) + 1 - k]], arg |-> msgs]

\* A variant whose window stops one message early.
TruncateShort(msgs, name) ==
    LET limits == _get_model_limits(name)
        w      == SlidingWindow(msgs, limits.max_tokens, limits.max_messages - 1)
        fits   == /\ Len(msgs) <= limits.max_messages
                  /\ SumTokens(msgs, 1, Len(msgs)) <= limits.max_tokens
    IN  [ret |-> IF msgs = <<>> \/ fits THEN msgs
                 ELSE IF w = <<>> THEN SubSeq(msgs, Len(msgs), Len(msgs)) ELSE w,
         arg |-> msgs]

\* ret: the returned list; arg: the caller's list after the call.
_truncate_conversation_context(msgs, name) ==
    IF msgs = <<>> THEN [ret |-> msgs, arg |-> msgs]
    ELSE
    LET limits       == _get_model_limits(name)
        max_tokens   == limits.max_tokens
        max_messages == limits.max_messages
        within       == /\ Len(msgs) <= max_messages
                        /\ SumTokens(msgs, 1, Len(msgs)) <= max_tokens
        window       == SlidingWindow(msgs, max_tokens, max_messages)
    IN  IF within THEN [ret |-> msgs, arg |-> msgs]
        ELSE IF window = <<>>
             THEN [ret |-> SubSeq(msgs, Len(msgs), Len(msgs)), arg |-> msgs]
             ELSE [ret |-> window, arg |-> msgs]

(***************************************************************************)
(* The store: EnhancedHistoryManager.                                      *)
(*                                                                         *)
(* A message content is the sequence of its whitespace-separated words;    *)
(* both URL patterns of _detect_media_content exclude whitespace, so every *)
(* match lies inside one word.                                             *)
(***************************************************************************)

\* How many conversations are created, and how many messages are appended.
MaxConvs == 1
MaxMsgs  == 2

\* How many messages a windowed conversation gets, and how many seconds pass.
MaxWinMsgs == 3
MaxClock   == 1

StartsWith(s, prefix) ==
    Len(prefix) <= Len(s) /\ SubSeq(s, 1, Len(prefix)) = prefix

EndsWith(s, suffix) ==
    Len(suffix) <= Len(s) /\ SubSeq(s, Len(s) - Len(suffix) + 1, Len(s)) = suffix

\* self.media_models
media_models == <<
    [m_type |-> "image",
     models |-> {"DALL-E-3", "FLUX.1-schnell", "FLUX.1-dev",
                 "Stable-Diffusion-XL", "Imagen-3", "Imagen-3-Fast"}],
    [m_type |-> "video",
     models |-> {"Runway-Gen-3", "Veo-2", "Kling-Pro-v1.5"}] >>

\* Python's None
None == "None"

\* for m_type, models in self.media_models.items(): first family that matches
MediaTypeOf(bot_name) ==
    LET hit == {i \in 1..Len(media_models) :
                  \E model \in media_models[i].models : Contains(bot_name, model)}
    IN  IF hit = {} THEN None
        ELSE media_models[CHOOSE i \in hit : \A j \in hit : i <= j].m_type

\* the extensions of url_pattern (matched with re.IGNORECASE; the words used
\* here are lower case)
MediaExtensions == {"jpg", "jpeg", "png", "gif", "webp", "mp4", "mov", "avi", "webm", "pdf"}

\* re.findall(url_pattern, word): the greedy match runs from the scheme to the
\* last ".<ext>" of the word
UrlPatternFindall(word) ==
    IF ~(StartsWith(word, "https://") \/ StartsWith(word, "http://")) THEN <<>>
    ELSE LET ends == {n \in 1..Len(word) :
                        \E e \in MediaExtensions : EndsWith(SubSeq(word, 1, n), "." \o e)}
         IN  IF ends = {} THEN <<>>
             ELSE <<SubSeq(word, 1, CHOOSE n \in ends : \A k \in ends : k <= n)>>

PoeChars == "abcdefghijklmnopqrstuvwxyzABCDEFGHIJKLMNOPQRSTUVWXYZ0123456789/-_"

\* re.findall(poe_media_pattern, word): the prefix and the longest run of
\* [a-zA-Z0-9/\-_] behind it
PoePatternFindall(word) ==
    LET prefix == "https://poe.com/"
    IN  IF ~StartsWith(word, prefix) THEN <<>>
        ELSE LET runs == {n \in Len(prefix)..Len(word) :
                            \A k \in (Len(prefix) + 1)..n :
                                Contains(PoeChars, SubSeq(word, k, k))}
             IN  <<SubSeq(word, 1, CHOOSE n \in runs : \A k \in runs : k <= n)>>

RECURSIVE FindallWords(_, _, _)
FindallWords(content, i, which) ==
    IF i > Len(content) THEN <<>>
    ELSE (IF which = "url" THEN UrlPatternFindall(content[i])
                           ELSE PoePatternFindall(content[i]))
         \o FindallWords(content, i + 1, which)

_detect_media_content(content, bot_name) ==
    LET media_type == MediaTypeOf(bot_name)
        urls       == FindallWords(content, 1, "url")
        poe_urls   == FindallWords(content, 1, "poe")
        all_urls   == urls \o poe_urls
    IN  IF all_urls # <<>> \/ media_type # None
        THEN [has_media    |-> TRUE,
              media_type   |-> media_type,
              urls         |-> all_urls,
              content_type |-> IF media_type # None /\ all_urls # <<>>
                               THEN "media" ELSE "mixed"]
        ELSE [has_media |-> FALSE, content_type |-> "text"]

\* hashlib.md5(url.encode()).hexdigest(): distinct digests for distinct URLs
md5(url) == "md5:" \o url

\* Path(urlparse(url).path).suffix
PathSuffix(url) ==
    LET scheme == IF StartsWith(url, "https://") THEN Len("https://") ELSE Len("http://")
        slashes == {i \in (scheme + 1)..Len(url) : SubSeq(url, i, i) = "/"}
    IN  IF slashes = {} THEN ""
        ELSE LET lastSlash == CHOOSE i \in slashes : \A j \in slashes : j <= i
                 name      == SubSeq(url, lastSlash + 1, Len(url))
                 dots      == {i \in 2..Len(name) : SubSeq(name, i, i) = "."}
             IN  IF dots = {} THEN ""
                 ELSE SubSeq(name, CHOOSE i \in dots : \A j \in dots : j <= i, Len(name))

\* local_filename = f"{url_hash}{path_ext}"
LocalFilename(url, media_type) ==
    LET path_ext == IF PathSuffix(url) # "" THEN PathSuffix(url)
                    ELSE IF media_type = "image" THEN ".jpg" ELSE ".mp4"
    IN  md5(url) \o path_ext

(***************************************************************************)
(* Schema.  A table is the set of its column names, {} while the table     *)
(* does not exist.  A row carries a value for every column of the enhanced *)
(* schema that the model reads; NoColumn stands in a row for a column the  *)
(* table does not have.  title and created_at are never read back.         *)
(***************************************************************************)

NoColumn == "<no column>"
NULL     == "NULL"

\* core/history.py: the schema HistoryManager.initialize creates
BasicSchema ==
    [conversations |-> {"id", "title", "bot_name", "created_at"},
     messages      |-> {"id", "conversation_id", "role", "content", "timestamp"},
     media_files   |-> {}]

\* the three CREATE TABLE statements of EnhancedHistoryManager.initialize
EnhancedSchema ==
    [conversations |-> {"id", "title", "bot_name", "chat_mode", "created_at", "updated_at"},
     messages      |-> {"id", "conversation_id", "role", "content", "content_type",
                        "media_data", "timestamp"},
     media_files   |-> {"id", "message_id", "file_hash", "original_url", "local_path",
                        "media_type", "file_size", "width", "height", "duration",
                        "created_at"}]

\* CREATE TABLE IF NOT EXISTS
CreateTablesIfNotExist(sch) ==
    [t \in DOMAIN sch |-> IF sch[t] = {} THEN EnhancedSchema[t] ELSE sch[t]]

\* The ALTER TABLE ... ADD COLUMN statements of the migration, in the order the
\* code issues them.  constant: the DEFAULT is a constant; SQLite refuses
\* "DEFAULT CURRENT_TIMESTAMP" on a table that holds rows ("Cannot add a
\* column with non-constant default").
MigrationSteps == <<
    [table |-> "conversations", column |-> "chat_mode",    default |-> "chatbot",   constant |-> TRUE],
    [table |-> "conversations", column |-> "updated_at",   default |-> "migrated",  constant |-> FALSE],
    [table |-> "messages",      column |-> "content_type", default |-> "text",      constant |-> TRUE],
    [table |-> "messages",      column |-> "media_data",   default |-> NULL,        constant |-> TRUE] >>

RowsOf(db, table) == IF table = "conversations" THEN db.conversations ELSE db.msg_rows

\* ALTER TABLE table ADD COLUMN column ... DEFAULT default, as SQLite runs it
AlterFails(db, step) ==
    \/ step.column \in db.schema[step.table]                 \* duplicate column name
    \/ ~step.constant /\ RowsOf(db, step.table) # {}         \* non-constant default

AddColumn(db, step) ==
    LET fill(rows) == {[r EXCEPT ![step.column] = step.default] : r \in rows}
    IN  [db EXCEPT !.schema[step.table] = @ \cup {step.column},
                   !.conversations = IF step.table = "conversations" THEN fill(@) ELSE @,
                   !.msg_rows      = IF step.table = "messages" THEN fill(@) ELSE @]

\* A variant that issues every ALTER TABLE without looking at table_info.
RECURSIVE MigrateUnguarded(_, _, _)
MigrateUnguarded(db, i, attempted) ==
    IF i > Len(MigrationSteps) THEN [db |-> db, attempted |-> attempted, failed |-> FALSE]
    ELSE IF AlterFails(db, MigrationSteps[i])
         THEN [db |-> db, attempted |-> Append(attempted, i), failed |-> TRUE]
         ELSE MigrateUnguarded(AddColumn(db, MigrationSteps[i]), i + 1, Append(attempted, i))

\* The body of the try block from step i on.  column_names is read once per
\* table (PRAGMA table_info) before the table's two steps; the two columns
\* differ, so the check against the current schema reads the same.  The first
\* failing statement raises and the except clause swallows it.
\* attempted: the steps whose ALTER TABLE was executed.
RECURSIVE _migrate_basic_to_enhanced(_, _, _)
_migrate_basic_to_enhanced(db, i, attempted) ==
    IF i > Len(MigrationSteps) THEN [db |-> db, attempted |-> attempted, failed |-> FALSE]
    ELSE LET step == MigrationSteps[i]
         IN  IF step.column \in db.schema[step.table]
             THEN _migrate_basic_to_enhanced(db, i + 1, attempted)
             ELSE IF AlterFails(db, step)
                  THEN [db |-> db, attempted |-> Append(attempted, i), failed |-> TRUE]
                  ELSE _migrate_basic_to_enhanced(AddColumn(db, step), i + 1,
                                                  Append(attempted, i))

\* Every row of `before` is in `after` with the values of the columns it had,
\* and `after` holds no other row.
RowsRetained(before, after, columns) ==
    LET old(r, t) == \A c \in (DOMAIN r) \cap columns : r[c] = t[c]
    IN  /\ \A r \in before : \E t \in after : old(r, t)
        /\ \A t \in after : \E r \in before : old(r, t)
        /\ Cardinality(after) = Cardinality(before)

Db == [schema |-> schema, conversations |-> conversations, msg_rows |-> msg_rows]

\* initialize(): the migration's exception never leaves _migrate_basic_to_enhanced,
\* so the call always returns.
Initialize ==
    LET created == [Db EXCEPT !.schema = CreateTablesIfNotExist(schema)]
        m       == _migrate_basic_to_enhanced(created, 1, <<>>)
    IN  /\ schema' = m.db.schema
        /\ conversations' = m.db.conversations
        /\ msg_rows' = m.db.msg_rows
        /\ last' = [op           |-> "initialize",
                    outcome      |-> "returned",
                    again        |-> last.op = "initialize",
                    alter_failed |-> m.failed,
                    readded      |-> {i \in 1..Len(m.attempted) :
                                        MigrationSteps[m.attempted[i]].column
                                          \in created.schema[MigrationSteps[m.attempted[i]].table]},
                    changed      |-> \/ m.db.schema # schema
                                     \/ m.db.conversations # conversations
                                     \/ m.db.msg_rows # msg_rows,
                    rows_kept    |-> /\ RowsRetained(conversations, m.db.conversations,
                                                     schema["conversations"])
                                     /\ RowsRetained(msg_rows, m.db.msg_rows,
                                                     schema["messages"]),
                    missing_before |-> {i \in 1..Len(MigrationSteps) :
                                          MigrationSteps[i].column
                                            \notin created.schema[MigrationSteps[i].table]},
                    added        |-> {i \in 1..Len(MigrationSteps) :
                                        /\ MigrationSteps[i].column
                                             \notin created.schema[MigrationSteps[i].table]
                                        /\ MigrationSteps[i].column
                                             \in m.db.schema[MigrationSteps[i].table]}]
        /\ UNCHANGED <<media_files, next_msg_id, next_conv, disk, clock, selVars, taskVars, appVars>>

\* The row INSERT INTO conversations (id, title, bot_name, chat_mode) makes.
NewConversation(id, bot_name, chat_mode) ==
    [id         |-> id,
     bot_name   |-> bot_name,
     chat_mode  |-> chat_mode,
     updated_at |-> IF "updated_at" \in schema["conversations"] THEN clock ELSE NoColumn]

\* create_conversation(title, bot_name, chat_mode): uuid4 hands out a fresh id.
\* INSERT names the chat_mode column; updated_at takes its column default,
\* CURRENT_TIMESTAMP.
CreateConversation(bot_name, chat_mode) ==
    /\ IF "chat_mode" \in schema["conversations"]
       THEN /\ next_conv' = next_conv + 1
            /\ conversations' = conversations \cup
                 {NewConversation(next_conv + 1, bot_name, chat_mode)}
            /\ last' = [op |-> "create_conversation", outcome |-> "returned",
                        conv |-> next_conv + 1]
       ELSE /\ UNCHANGED <<next_conv, conversations>>
            /\ last' = [op |-> "create_conversation", outcome |-> "raised", conv |-> 0]
    /\ UNCHANGED <<schema, msg_rows, media_files, next_msg_id, disk, clock, selVars, taskVars, appVars>>

\* The (role, content, bot_name) triples handed to add_message.
PoeUrl == "https://poe.com/x"
PngUrl == "https://h.io/a.png"

UrlArgs == {
    [role |-> "user",      content |-> <<"hi">>,           bot_name |-> None],
    [role |-> "user",      content |-> <<PoeUrl>>,         bot_name |-> None],
    [role |-> "assistant", content |-> <<PoeUrl>>,         bot_name |-> "DALL-E-3"],
    [role |-> "assistant", content |-> <<PngUrl, PoeUrl>>, bot_name |-> "DALL-E-3"] }

\* Appends without a URL: a user's text, and the text reply of an image model.
TextArgs == {
    [role |-> "user",      content |-> <<"hi">>, bot_name |-> None],
    [role |-> "assistant", content |-> <<"hi">>, bot_name |-> "DALL-E-3"] }

AppendArgs == UrlArgs \cup TextArgs

\* The ids handed out so far, and 0: the id of the conversation of the old
\* database, an id without a row in a new one.
ConvIds == 0..next_conv

\* Python: bot_name or ""
OrEmpty(bot_name) == IF bot_name = None THEN "" ELSE bot_name

\* The detection, file name and digest of every input, evaluated once.
\* The texts and bots of the applications on top of the store.
AppTexts == {<<"q1">>, <<"q2">>, <<"q3">>, <<"a1">>, <<"a2">>, <<"a3">>}
AppBots  == {"GPT-4", "Claude-3-Sonnet", "GPT-3.5-Turbo"}

DetectMemo ==
    [c \in {a.content : a \in AppendArgs} \cup AppTexts,
     b \in {OrEmpty(a.bot_name) : a \in AppendArgs} \cup AppBots |->
        _detect_media_content(c, b)]

\* media_info.get('urls', [])
DetectedUrls(content) ==
    LET media_info == DetectMemo[content, ""]
    IN  IF media_info.has_media THEN media_info.urls ELSE <<>>

AllUrls == UNION {{DetectedUrls(a.content)[i] : i \in 1..Len(DetectedUrls(a.content))} :
                    a \in AppendArgs}

Md5Memo == [u \in AllUrls |-> md5(u)]

LocalFilenameMemo ==
    [u \in AllUrls, t \in {"image", "video", None} |-> LocalFilename(u, t)]

\* The files of the media directory that hold url, whatever their extension.
FilesFor(files, url) ==
    files \cap {LocalFilenameMemo[url, t] : t \in {"image", "video", None}}


\* What a GET of a media URL comes to: status 200 with the bytes, or a failure
\* (another status, a timeout, any exception), after which _download_media
\* returns None in every case.
FetchOutcomes == {"200", "failed"}

\* _download_media(url, media_type) against the files in `files`.
\* returned: a metadata dict came back (None otherwise); requested: a GET went
\* over the wire.
_download_media(files, url, media_type, outcome) ==
    LET url_hash   == Md5Memo[url]
        local_path == LocalFilenameMemo[url, media_type]
    IN  IF local_path \in files
        THEN [returned |-> TRUE, local_path |-> local_path, file_hash |-> url_hash,
              files |-> files, requested |-> FALSE]
        ELSE IF outcome = "200"
             THEN [returned |-> TRUE, local_path |-> local_path, file_hash |-> url_hash,
                   files |-> files \cup {local_path}, requested |-> TRUE]
             ELSE [returned |-> FALSE, local_path |-> local_path, file_hash |-> url_hash,
                   files |-> files, requested |-> TRUE]

\* INSERT INTO media_files (...) VALUES (...).  file_hash is UNIQUE: the
\* INSERT of a hash the table holds raises sqlite3.IntegrityError, which
\* nothing in add_message catches.
InsertMediaFile(acc, message_id, url, media_type, d) ==
    IF \E r \in acc.media_files : r.file_hash = d.file_hash
    THEN [acc EXCEPT !.raised = TRUE]
    ELSE [acc EXCEPT !.media_files = @ \cup
            {[message_id   |-> message_id,
              file_hash    |-> d.file_hash,
              original_url |-> url,
              local_path   |-> d.local_path,
              media_type   |-> IF media_type = None THEN NULL ELSE media_type]}]

\* if media_metadata: INSERT
InsertMediaFileIf(returned, acc, message_id, url, media_type, d) ==
    IF returned THEN InsertMediaFile(acc, message_id, url, media_type, d) ELSE acc

\* The body of `for url in media_info.get('urls', [])`: download, and INSERT
\* when metadata came back.
DownloadStep(acc, url, media_type, message_id, d) ==
    InsertMediaFileIf(d.returned,
        [acc EXCEPT !.disk = d.files,
                    !.fetched = IF d.requested THEN @ \cup {url} ELSE @,
                    !.failed  = IF d.returned THEN @ ELSE @ \cup {url}],
        message_id, url, media_type, d)

RECURSIVE DownloadLoop(_, _, _, _, _, _)
DownloadLoop(acc, urls, i, media_type, message_id, net) ==
    IF i > Len(urls) \/ acc.raised THEN acc
    ELSE DownloadLoop(
           DownloadStep(acc, urls[i], media_type, message_id,
                        _download_media(acc.disk, urls[i], media_type, net[i])),
           urls, i + 1, media_type, message_id, net)

\* What one add_message call met and did: the detected URLs, those with a
\* file on disk and those recorded in media_files when the call began, the
\* URLs requested over the wire and the requests that failed.
CallInfo(urls, done) ==
    [urls            |-> urls,
     fetched         |-> done.fetched,
     failed          |-> done.failed,
     on_disk_before  |-> {u \in {urls[i] : i \in 1..Len(urls)} : FilesFor(disk, u) # {}},
     recorded_before |-> {u \in {urls[i] : i \in 1..Len(urls)} :
                            \E r \in media_files : r.file_hash = Md5Memo[u]}]

\* A variant that keeps one row per conversation (REPLACE keyed by conversation).
ReplaceMessage(rows, row) ==
    {r \in rows : r.conversation_id # row.conversation_id} \cup {row}

\* INSERT INTO messages (...) VALUES (...)
InsertMessage(rows, row) == rows \cup {row}

\* The INSERT INTO messages needs the content_type and media_data columns; an
\* exception anywhere leaves the transaction uncommitted (files already
\* written stay); otherwise the commit.
Outcome(conversation_id, role, content, media_info, done, info) ==
    IF ~({"content_type", "media_data"} \subseteq schema["messages"])
    THEN [outcome |-> "raised", msg_id |-> 0, msg_rows |-> msg_rows,
          media_files |-> media_files, next_msg_id |-> next_msg_id, disk |-> disk,
          info |-> [info EXCEPT !.fetched = {}, !.failed = {}]]
    ELSE IF done.raised
    THEN [outcome |-> "raised", msg_id |-> 0, msg_rows |-> msg_rows,
          media_files |-> media_files, next_msg_id |-> next_msg_id, disk |-> done.disk,
          info |-> info]
    ELSE [outcome |-> "returned", msg_id |-> next_msg_id,
          msg_rows |-> InsertMessage(msg_rows,
              [id              |-> next_msg_id,
               conversation_id |-> conversation_id,
               role            |-> role,
               content         |-> content,
               content_type    |-> media_info.content_type,
               media_data      |-> IF media_info.has_media THEN media_info ELSE NULL,
               timestamp       |-> clock]),
          media_files |-> done.media_files, next_msg_id |-> next_msg_id + 1,
          disk |-> done.disk, info |-> info]

\* The loop over urls and what comes of it.
Downloaded(conversation_id, role, content, media_info, urls, done) ==
    Outcome(conversation_id, role, content, media_info, done, CallInfo(urls, done))

\* if media_info['has_media'] and download_media: for url in urls: ...
\* media_info.get('media_type', 'image') is the detected type, None included.
Detected(conversation_id, role, content, media_info, urls, net) ==
    Downloaded(conversation_id, role, content, media_info, urls,
               DownloadLoop([disk |-> disk, media_files |-> media_files, fetched |-> {},
                             failed |-> {}, raised |-> FALSE],
                            urls, 1,
                            IF media_info.has_media THEN media_info.media_type ELSE None,
                            next_msg_id, net))

WithMediaInfo(conversation_id, role, content, media_info, download_media, net) ==
    Detected(conversation_id, role, content, media_info,
             IF media_info.has_media /\ download_media THEN media_info.urls ELSE <<>>,
             net)

\* add_message(conversation_id, role, content, bot_name, download_media).
\* net[i] is what the GET of the i-th detected URL comes to, should it be sent.
\* The result holds the committed tables, the disk and what the call did.
add_message(conversation_id, role, content, bot_name, download_media, net) ==
    WithMediaInfo(conversation_id, role, content,
                  DetectMemo[content, OrEmpty(bot_name)], download_media, net)

Committed(conversation_id, a, r) ==
    /\ msg_rows' = r.msg_rows
    /\ media_files' = r.media_files
    /\ next_msg_id' = r.next_msg_id
    /\ disk' = r.disk
    /\ last' = [op |-> "add_message", outcome |-> r.outcome,
                conv |-> conversation_id, msg |-> r.msg_id,
                content |-> a.content, bot_name |-> a.bot_name, info |-> r.info]

\* Every caller leaves download_media at its default, True.
AddMessage(conversation_id, a, net) ==
    /\ Committed(conversation_id, a,
                 add_message(conversation_id, a.role, a.content, a.bot_name, TRUE, net))
    /\ UNCHANGED <<schema, conversations, next_conv, clock, selVars, taskVars, appVars>>

TablesExist == \A t \in DOMAIN schema : schema[t] # {}

\* A variant that leaves the media files of the conversation on disk.
DeleteKeepsFiles(conversation_id) ==
    LET ids == {m.id : m \in {x \in msg_rows : x.conversation_id = conversation_id}}
    IN  [disk          |-> disk,
         media_files   |-> {r \in media_files : r.message_id \notin ids},
         msg_rows      |-> {m \in msg_rows : m.conversation_id # conversation_id},
         conversations |-> {c \in conversations : c.id # conversation_id}]

\* delete_conversation(conversation_id), steps 1 to 4 and the commit
delete_conversation(conversation_id) ==
    LET ids == {m.id : m \in {x \in msg_rows : x.conversation_id = conversation_id}}
        media_files_to_delete == {r.local_path : r \in {x \in media_files : x.message_id \in ids}}
    IN  [disk          |-> disk \ media_files_to_delete,
         media_files   |-> {r \in media_files : r.message_id \notin ids},
         msg_rows      |-> {m \in msg_rows : m.conversation_id # conversation_id},
         conversations |-> {c \in conversations : c.id # conversation_id}]

DeleteConversation(conversation_id) ==
    LET ids == {m.id : m \in {x \in msg_rows : x.conversation_id = conversation_id}}
        r   == delete_conversation(conversation_id)
    IN  IF \A t \in DOMAIN schema : schema[t] # {}
        THEN /\ disk' = r.disk
             /\ media_files' = r.media_files
             /\ msg_rows' = r.msg_rows
             /\ conversations' = r.conversations
             /\ last' = [op |-> "delete_conversation", outcome |-> "returned",
                         conv |-> conversation_id,
                         had_row |-> \E c \in conversations : c.id = conversation_id,
                         changed |-> \/ r.disk # disk
                                     \/ r.media_files # media_files
                                     \/ r.msg_rows # msg_rows
                                     \/ r.conversations # conversations,
                         former_msgs  |-> ids,
                         former_files |-> {x.local_path : x \in
                                             {y \in media_files : y.message_id \in ids}}]
             /\ UNCHANGED <<schema, next_msg_id, next_conv, clock, selVars, taskVars, appVars>>
        ELSE /\ last' = [op |-> "delete_conversation", outcome |-> "raised",
                         conv |-> conversation_id,
                         had_row |-> \E c \in conversations : c.id = conversation_id,
                         changed |-> FALSE,
                         former_msgs |-> {}, former_files |-> {}]
             /\ UNCHANGED <<schema, conversations, msg_rows, media_files, next_msg_id,
                            next_conv, disk, clock, selVars, taskVars, appVars>>

\* core/history.py, HistoryManager.delete_conversation: the command line and the
\* core client open the same database file (config.database_path) with the
\* basic manager, whose delete knows nothing of media_files.
BasicDeleteConversation(conversation_id) ==
    /\ schema["messages"] # {} /\ schema["conversations"] # {}
    /\ \E c \in conversations : c.id = conversation_id
    /\ msg_rows' = {m \in msg_rows : m.conversation_id # conversation_id}
    /\ conversations' = {c \in conversations : c.id # conversation_id}
    /\ last' = [op |-> "basic_delete_conversation", outcome |-> "returned",
                conv |-> conversation_id]
    /\ UNCHANGED <<schema, media_files, next_msg_id, next_conv, disk, clock,
                   selVars, taskVars, appVars>>

\* A variant that removes every media_files row and file.
CleanupEverything ==
    [disk          |-> disk \ {r.local_path : r \in media_files},
     media_files   |-> {},
     deleted_count |-> Cardinality(disk \cap {r.local_path : r \in media_files}),
     ret           |-> None]

\* cleanup_orphaned_media(): the LEFT JOIN finds the rows without a message,
\* their files are unlinked where present, the rows are deleted, the commit.
\* The function has no return statement: its caller gets None.
cleanup_orphaned_media ==
    LET orphaned == {r \in media_files : ~\E m \in msg_rows : m.id = r.message_id}
        orphaned_files == {r.local_path : r \in orphaned}
    IN  [disk          |-> disk \ orphaned_files,
         media_files   |-> {r \in media_files : \E m \in msg_rows : m.id = r.message_id},
         deleted_count |-> Cardinality(disk \cap orphaned_files),
         ret           |-> None]

CleanedUp(r) ==
    /\ disk' = r.disk
    /\ media_files' = r.media_files
    /\ last' = [op |-> "cleanup_orphaned_media", outcome |-> "returned",
                ret     |-> r.ret,
                again   |-> last.op = "cleanup_orphaned_media",
                changed |-> r.disk # disk \/ r.media_files # media_files,
                media_before |-> media_files,
                disk_before  |-> disk]

CleanupOrphanedMedia ==
    /\ schema["messages"] # {} /\ schema["media_files"] # {}
    /\ CleanedUp(cleanup_orphaned_media)
    /\ UNCHANGED <<schema, conversations, msg_rows, next_msg_id, next_conv, clock,
                   selVars, taskVars, appVars>>

\* The rows of `rows` as a list ORDER BY timestamp ASC.  Rows of one second
\* come in rowid order: SQLite's sorter keeps the order of the table scan
\* among equal keys.
RECURSIVE OrderByTimestamp(_)
OrderByTimestamp(rows) ==
    IF rows = {} THEN <<>>
    ELSE LET first == CHOOSE r \in rows : \A o \in rows :
                          \/ r.timestamp < o.timestamp
                          \/ r.timestamp = o.timestamp /\ r.id <= o.id
         IN  <<first>> \o OrderByTimestamp(rows \ {first})

\* Python: " ".join(words), the content as the str the code holds
RECURSIVE Text(_)
Text(content) ==
    IF content = <<>> THEN ""
    ELSE IF Len(content) = 1 THEN content[1]
    ELSE content[1] \o " " \o Text(Tail(content))

\* Python: s[:n]
Prefix(s, n) == SubSeq(s, 1, IF Len(s) < n THEN Len(s) ELSE n)

\* Python: xs[-n:] for n >= 1
LastN(xs, n) == SubSeq(xs, IF Len(xs) > n THEN Len(xs) - n + 1 ELSE 1, Len(xs))

\* Python: xs[:-n] for n >= 1
AllButLastN(xs, n) == SubSeq(xs, 1, IF Len(xs) > n THEN Len(xs) - n ELSE 0)

key_chars == 100

\* msg_key = (msg['role'], msg['content'][:100], msg['timestamp'])
msg_key(msg) == <<msg.role, Prefix(Text(msg.content), key_chars), msg.timestamp>>

\* A variant that keeps every message of the combined list.
KeepDuplicates(context_messages, seen) == context_messages

\* "Remove duplicates while preserving order"
RECURSIVE RemoveDuplicates(_, _)
RemoveDuplicates(context_messages, seen) ==
    IF context_messages = <<>> THEN <<>>
    ELSE LET msg == Head(context_messages)
         IN  IF msg_key(msg) \in seen
             THEN RemoveDuplicates(Tail(context_messages), seen)
             ELSE <<msg>> \o RemoveDuplicates(Tail(context_messages),
                                              seen \cup {msg_key(msg)})

\* sorted(filtered_messages, key=lambda x: x['timestamp']): a stable sort
RECURSIVE SortedByTimestamp(_)
SortedByTimestamp(msgs) ==
    IF msgs = <<>> THEN <<>>
    ELSE LET i == CHOOSE k \in 1..Len(msgs) :
                    /\ \A j \in 1..Len(msgs) : msgs[k].timestamp <= msgs[j].timestamp
                    /\ \A j \in 1..(k - 1) : msgs[j].timestamp > msgs[k].timestamp
         IN  <<msgs[i]>> \o SortedByTimestamp(SubSeq(msgs, 1, i - 1)
                                               \o SubSeq(msgs, i + 1, Len(msgs)))

\* is_media_model of the conversation's bot
IsMediaModelMemo ==
    [b \in {"DALL-E-3", "GPT-4o"} \cup AppBots |-> MediaTypeOf(b) # None]

\* The smart context limiting of a media model's conversation.
SmartContext(msgs, media_context_limit) ==
    LET recent_messages == LastN(msgs, media_context_limit)
        IsMedia(msg)    == msg.content_type \in {"media", "mixed"}
        media_messages  == LastN(SelectSeq(AllButLastN(msgs, media_context_limit), IsMedia),
                                 media_context_limit)
    IN  SortedByTimestamp(RemoveDuplicates(media_messages \o recent_messages, {}))

\* The list of message dicts built from the rows (the media metadata attached
\* to a media message is left out: nothing below reads it).
StoredMessages(conversation_id) ==
    LET rows == OrderByTimestamp({m \in msg_rows : m.conversation_id = conversation_id})
    IN  [i \in 1..Len(rows) |->
           [role         |-> rows[i].role,
            content      |-> rows[i].content,
            content_type |-> rows[i].content_type,
            timestamp    |-> rows[i].timestamp]]

Windowed(msgs, is_media_model, media_context_limit) ==
    IF is_media_model /\ Len(msgs) > media_context_limit * 2
    THEN SmartContext(msgs, media_context_limit)
    ELSE msgs

\* get_conversation_messages(conversation_id, media_context_limit = N)
get_conversation_messages(conversation_id, media_context_limit) ==
    IF ~\E c \in conversations : c.id = conversation_id THEN <<>>
    ELSE Windowed(StoredMessages(conversation_id),
                  IsMediaModelMemo[(CHOOSE c \in conversations : c.id = conversation_id).bot_name],
                  media_context_limit)

\* media_context_limit: int = 5
default_media_context_limit == 5

Returned(conversation_id, media_context_limit, r) ==
    last' = [op |-> "get_conversation_messages", outcome |-> "returned",
             conv   |-> conversation_id,
             limit  |-> media_context_limit,
             stored |-> IF \E c \in conversations : c.id = conversation_id
                        THEN StoredMessages(conversation_id) ELSE <<>>,
             is_media |-> \E c \in conversations :
                             c.id = conversation_id /\ IsMediaModelMemo[c.bot_name],
             result |-> r]

\* A read through get_conversation_messages.  The SELECT names content_type
\* and media_data, columns an unmigrated messages table lacks.
GetConversationMessages(conversation_id, media_context_limit) ==
    /\ IF /\ schema["conversations"] # {}
          /\ \/ ~\E c \in conversations : c.id = conversation_id
             \/ {"content_type", "media_data"} \subseteq schema["messages"]
       THEN Returned(conversation_id, media_context_limit,
                     get_conversation_messages(conversation_id, media_context_limit))
       ELSE last' = [op |-> "get_conversation_messages", outcome |-> "raised",
                     conv |-> conversation_id, limit |-> media_context_limit,
                     stored |-> <<>>, is_media |-> FALSE, result |-> <<>>]
    /\ UNCHANGED <<schema, conversations, msg_rows, media_files, next_msg_id,
                   next_conv, disk, clock, selVars, taskVars, appVars>>

(***************************************************************************)
(* get_conversations.  One SELECT over conversations LEFT JOIN messages,   *)
(* grouped by conversation.  A joined row holds the conversation and the   *)
(* message it was matched with: m = {message}, or m = {} where SQLite puts *)
(* NULL into every column of m.                                            *)
(***************************************************************************)

\* FROM conversations c LEFT JOIN messages m ON c.id = m.conversation_id
LeftJoin(convs, msgs) ==
    {[c |-> c, m |-> {x}] : <<c, x>> \in {p \in convs \X msgs : p[1].id = p[2].conversation_id}}
      \cup {[c |-> c, m |-> {}] : c \in {d \in convs : \A x \in msgs : x.conversation_id # d.id}}

\* COUNT(m.id): the rows of the group whose m.id is not NULL
CountMessageId(group) == Cardinality({j \in group : j.m # {}})

\* SUM(CASE WHEN m.content_type IN ('media', 'mixed') THEN 1 ELSE 0 END): a
\* NULL content_type fails the IN test and adds the ELSE branch's 0.  A group
\* holds at least one joined row, so the sum is never NULL.
SumMediaCase(group) ==
    Cardinality({j \in group : \E x \in j.m : x.content_type \in {"media", "mixed"}})

\* GROUP BY c.id, ...: one result row per conversation of the join
GroupRow(joined, c) ==
    [id            |-> c.id,
     bot_name      |-> c.bot_name,
     chat_mode     |-> c.chat_mode,
     updated_at    |-> c.updated_at,
     message_count |-> CountMessageId({j \in joined : j.c = c}),
     media_count   |-> SumMediaCase({j \in joined : j.c = c}),
     has_media     |-> SumMediaCase({j \in joined : j.c = c}) > 0]

GroupBy(joined) == {GroupRow(joined, c) : c \in {j.c : j \in joined}}

\* ORDER BY c.updated_at DESC: SQL leaves the order of rows with equal keys
\* open, so every descending arrangement of the rows is a possible result.
OrderByUpdatedAtDesc(rows) ==
    {s \in [1..Cardinality(rows) -> rows] :
        /\ \A i, j \in DOMAIN s : i # j => s[i] # s[j]
        /\ \A i, j \in DOMAIN s : i < j => s[i].updated_at >= s[j].updated_at}

\* The columns the SELECT names; a missing one makes execute raise
\* OperationalError ("no such column"), a missing table likewise.
SelectColumns ==
    [conversations |-> {"id", "title", "bot_name", "chat_mode", "created_at", "updated_at"},
     messages      |-> {"id", "conversation_id", "content_type"}]

SelectRuns == \A t \in DOMAIN SelectColumns : SelectColumns[t] \subseteq schema[t]

get_conversations == OrderByUpdatedAtDesc(GroupBy(LeftJoin(conversations, msg_rows)))

GetConversations ==
    /\ IF SelectRuns
       THEN \E r \in get_conversations :
              last' = [op |-> "get_conversations", outcome |-> "returned", ret |-> r]
       ELSE last' = [op |-> "get_conversations", outcome |-> "raised", ret |-> <<>>]
    /\ UNCHANGED <<schema, conversations, msg_rows, media_files, next_msg_id,
                   next_conv, disk, clock, selVars, taskVars, appVars>>

\* A second passes.
Tick ==
    /\ clock < MaxClock
    /\ clock' = clock + 1
    /\ UNCHANGED <<schema, conversations, msg_rows, media_files, next_msg_id,
                   next_conv, disk, last, selVars, taskVars, appVars>>

\* get_media_stats()['total_files']: the group counts of media_files summed
get_media_stats_total_files == Cardinality(media_files)

(***************************************************************************)
(* Spec: the store from construction on.  The database file is absent, or  *)
(* was written by the basic HistoryManager (core/history.py).              *)
(***************************************************************************)

OldConversation == [id |-> 0, bot_name |-> "GPT-4o", chat_mode |-> NoColumn,
                    updated_at |-> NoColumn]
OldMessage == [id |-> 1, conversation_id |-> 0, role |-> "user", content |-> <<"hi">>,
               content_type |-> NoColumn, media_data |-> NoColumn, timestamp |-> 0]

SelIdle ==
    /\ sel_pc = "start"
    /\ model_name = "Default"
    /\ messages = <<>>
    /\ result = <<>>
    /\ sel_in = <<>>
    /\ sel_limits = None

\* self._lock = asyncio.Lock(): unlocked, or held by one of the tasks
Free == "free"
Tasks == {"t1", "t2"}

NoCall == [op |-> "none", conv |-> 0, arg |-> None, i |-> 0, msg_id |-> 0, ok_urls |-> {}]

TasksIdle ==
    /\ lock = Free
    /\ pc = [t \in Tasks |-> "idle"]
    /\ call = [t \in Tasks |-> NoCall]
    /\ txn = [open |-> FALSE]

\* No application has called the remote bot or keeps anything in memory.
AppIdle ==
    /\ remote = <<>>
    /\ session = [app |-> None, requests |-> 0, first_bot |-> {},
                  conversation_contexts |-> {}, conversation |-> <<>>]

StoreEmpty ==
    /\ next_msg_id = Cardinality(msg_rows) + 1
    /\ media_files = {}
    /\ next_conv = 0
    /\ disk = {}
    /\ clock = 0
    /\ last = [op |-> "none"]
    /\ TasksIdle
    /\ AppIdle

\* A store constructed on a path that holds no database file.
Init ==
    /\ SelIdle
    /\ schema = [t \in DOMAIN BasicSchema |-> {}]
    /\ conversations = {}
    /\ msg_rows = {}
    /\ StoreEmpty

Next ==
    \/ Initialize
    \/ next_conv < MaxConvs /\ CreateConversation("DALL-E-3", "chatbot")
    \/ \E c \in ConvIds \ {0}, a \in UrlArgs :
         \E net \in [1..Len(DetectedUrls(a.content)) -> FetchOutcomes] :
            next_msg_id <= MaxMsgs /\ AddMessage(c, a, net)
    \/ \E c \in ConvIds : DeleteConversation(c)
    \/ \E c \in ConvIds : BasicDeleteConversation(c)
    \/ CleanupOrphanedMedia

Spec == Init /\ [][Next]_vars

(***************************************************************************)
(* SpecMig: a store constructed on a database file that the basic          *)
(* HistoryManager wrote, holding no row, a conversation, or a conversation *)
(* with a message.                                                         *)
(***************************************************************************)

MigInit ==
    /\ SelIdle
    /\ schema = BasicSchema
    /\ conversations \in {{}, {OldConversation}}
    /\ msg_rows \in {{}, {OldMessage}}
    /\ msg_rows # {} => conversations # {}
    /\ StoreEmpty

MigNext ==
    \/ Initialize
    \/ next_conv < MaxConvs /\ CreateConversation("GPT-4o", "chatbot")
    \/ \E c \in ConvIds, a \in {x \in UrlArgs : DetectedUrls(x.content) = <<>>} :
         next_msg_id <= MaxMsgs /\ AddMessage(c, a, <<>>)
    \/ \E c \in ConvIds : DeleteConversation(c)
    \/ GetConversations

SpecMig == MigInit /\ [][MigNext]_vars

(***************************************************************************)
(* SpecTasks: two tasks of one event loop call the store.  A call is taken *)
(* apart at its awaits: the wait for self._lock, the statements on the     *)
(* connection, the GET of a media URL, the commit.  A task can be          *)
(* cancelled at any await; the CancelledError unwinds both `async with`    *)
(* blocks: the connection closes without a commit and the lock is released.*)
(***************************************************************************)

Tables == [conversations |-> conversations, msg_rows |-> msg_rows,
           media_files |-> media_files, next_msg_id |-> next_msg_id]

\* A variant in which every statement is committed as it is executed.
AutocommitStatement(committed, working) ==
    [committed |-> working, working |-> working]

\* A statement executed on the connection: python's sqlite3 has opened a
\* transaction before the first INSERT or DELETE, the write stays in it.
Statement(committed, working) ==
    [committed |-> committed, working |-> working]

\* A variant in which closing the connection commits what is pending.
CloseCommits(committed, working) == working

\* The connection closes without a commit: the transaction is rolled back.
Rollback(committed, working) == committed

\* The tables after a statement or a close.
Store(tables) ==
    /\ conversations' = tables.conversations
    /\ msg_rows' = tables.msg_rows
    /\ media_files' = tables.media_files
    /\ next_msg_id' = tables.next_msg_id

Working == [conversations |-> txn.conversations, msg_rows |-> txn.msg_rows,
            media_files |-> txn.media_files, next_msg_id |-> txn.next_msg_id]

\* Executes a statement that leaves `working` in the connection's view.
Execute(working) ==
    /\ Store(Statement(Tables, working).committed)
    /\ txn' = [txn EXCEPT !.conversations = working.conversations,
                          !.msg_rows = working.msg_rows,
                          !.media_files = working.media_files,
                          !.next_msg_id = working.next_msg_id]

Closed == [open |-> FALSE]

Opened(t) ==
    [open |-> TRUE, before |-> Tables,
     conversations |-> conversations, msg_rows |-> msg_rows,
     media_files |-> media_files, next_msg_id |-> next_msg_id]

\* The call of task t ends: an exception or a cancellation leaves both
\* `async with` blocks, closing the connection uncommitted.
Unwind(t, outcome) ==
    /\ Store(Rollback(Tables, Working))
    /\ txn' = Closed
    /\ lock' = Free
    /\ pc' = [pc EXCEPT ![t] = "idle"]
    /\ call' = [call EXCEPT ![t] = NoCall]
    /\ last' = [op |-> call[t].op, outcome |-> outcome, conv |-> call[t].conv,
                msg |-> call[t].msg_id, ok_urls |-> call[t].ok_urls,
                before |-> txn.before, at |-> pc[t]]

\* await db.commit(), then the connection closes and the lock is released.
CommitAndReturn(t) ==
    /\ Store(Working)
    /\ txn' = Closed
    /\ lock' = Free
    /\ pc' = [pc EXCEPT ![t] = "idle"]
    /\ call' = [call EXCEPT ![t] = NoCall]
    /\ last' = [op |-> call[t].op, outcome |-> "returned", conv |-> call[t].conv,
                msg |-> call[t].msg_id, ok_urls |-> call[t].ok_urls,
                before |-> txn.before, at |-> pc[t]]

\* A task calls add_message: the detection runs, then the task waits for
\* the lock.
AddBegin(t, conversation_id, a) ==
    /\ pc[t] = "idle"
    /\ pc' = [pc EXCEPT ![t] = "lock"]
    /\ call' = [call EXCEPT ![t] = [op |-> "add_message", conv |-> conversation_id,
                                    arg |-> a, i |-> 1, msg_id |-> 0, ok_urls |-> {}]]
    /\ UNCHANGED <<lock, txn, storeVars, selVars, appVars>>

MessageRow(t, message_id) ==
    [id              |-> message_id,
     conversation_id |-> call[t].conv,
     role            |-> call[t].arg.role,
     content         |-> call[t].arg.content,
     content_type    |-> DetectMemo[call[t].arg.content, OrEmpty(call[t].arg.bot_name)].content_type,
     media_data      |-> IF DetectMemo[call[t].arg.content, OrEmpty(call[t].arg.bot_name)].has_media
                         THEN DetectMemo[call[t].arg.content, OrEmpty(call[t].arg.bot_name)]
                         ELSE NULL,
     timestamp       |-> clock]

\* async with self._lock; aiosqlite.connect; INSERT INTO messages.  An
\* unmigrated messages table makes the INSERT raise.
AddAcquire(t) ==
    /\ pc[t] = "lock" /\ call[t].op = "add_message"
    /\ lock = Free
    /\ IF {"content_type", "media_data"} \subseteq schema["messages"]
       THEN /\ lock' = t
            /\ txn' = [Opened(t) EXCEPT !.msg_rows = @ \cup {MessageRow(t, next_msg_id)},
                                        !.next_msg_id = @ + 1]
            /\ pc' = [pc EXCEPT ![t] = "url"]
            /\ call' = [call EXCEPT ![t].msg_id = next_msg_id]
            /\ UNCHANGED last
       ELSE /\ pc' = [pc EXCEPT ![t] = "idle"]
            /\ call' = [call EXCEPT ![t] = NoCall]
            /\ last' = [op |-> "add_message", outcome |-> "raised", conv |-> call[t].conv,
                        msg |-> 0, ok_urls |-> {}, before |-> Tables, at |-> pc[t]]
            /\ UNCHANGED <<lock, txn>>
    /\ UNCHANGED <<schema, conversations, msg_rows, media_files, next_msg_id,
                   next_conv, disk, clock, selVars, appVars>>

CallUrls(t) == DetectedUrls(call[t].arg.content)

CallMediaType(t) ==
    IF DetectMemo[call[t].arg.content, OrEmpty(call[t].arg.bot_name)].has_media
    THEN DetectMemo[call[t].arg.content, OrEmpty(call[t].arg.bot_name)].media_type
    ELSE None

\* The INSERT INTO media_files of the i-th URL after _download_media came
\* back with d; a duplicate file_hash raises out of add_message.
AfterDownload(t, url, d, acc) ==
    IF acc.raised
    THEN Unwind(t, "raised")
    ELSE /\ Execute([Working EXCEPT !.media_files = acc.media_files])
         /\ pc' = [pc EXCEPT ![t] = "url"]
         /\ call' = [call EXCEPT ![t].i = @ + 1,
                                 ![t].ok_urls = IF d.returned THEN @ \cup {url} ELSE @]
         /\ UNCHANGED <<lock, last>>

Acc == [disk |-> disk, media_files |-> txn.media_files, fetched |-> {}, failed |-> {},
        raised |-> FALSE]

\* The next URL of the loop: the file is there (a cache hit, no request), or
\* the GET is sent and the task awaits the response, the lock still held.
AddUrl(t) ==
    /\ pc[t] = "url" /\ call[t].i <= Len(CallUrls(t))
    /\ IF LocalFilenameMemo[CallUrls(t)[call[t].i], CallMediaType(t)] \in disk
       THEN AfterDownload(t, CallUrls(t)[call[t].i],
                _download_media(disk, CallUrls(t)[call[t].i], CallMediaType(t), "200"),
                DownloadStep(Acc, CallUrls(t)[call[t].i], CallMediaType(t), call[t].msg_id,
                    _download_media(disk, CallUrls(t)[call[t].i], CallMediaType(t), "200")))
       ELSE /\ pc' = [pc EXCEPT ![t] = "fetching"]
            /\ UNCHANGED <<call, lock, txn, last, conversations, msg_rows, media_files,
                           next_msg_id>>
    /\ UNCHANGED <<schema, next_conv, disk, clock, selVars, appVars>>

\* The response arrives (or the request fails): the file is written on a
\* 200, then the INSERT.
AddFetched(t, outcome) ==
    /\ pc[t] = "fetching"
    /\ disk' = _download_media(disk, CallUrls(t)[call[t].i], CallMediaType(t), outcome).files
    /\ AfterDownload(t, CallUrls(t)[call[t].i],
            _download_media(disk, CallUrls(t)[call[t].i], CallMediaType(t), outcome),
            DownloadStep(Acc, CallUrls(t)[call[t].i], CallMediaType(t), call[t].msg_id,
                _download_media(disk, CallUrls(t)[call[t].i], CallMediaType(t), outcome)))
    /\ UNCHANGED <<schema, next_conv, clock, selVars, appVars>>

AddCommit(t) ==
    /\ pc[t] = "url" /\ call[t].i > Len(CallUrls(t))
    /\ CommitAndReturn(t)
    /\ UNCHANGED <<schema, next_conv, disk, clock, selVars, appVars>>

\* A task calls get_conversation_messages and waits for the lock.
ReadBegin(t, conversation_id) ==
    /\ pc[t] = "idle"
    /\ pc' = [pc EXCEPT ![t] = "lock"]
    /\ call' = [call EXCEPT ![t] = [NoCall EXCEPT !.op = "get_conversation_messages",
                                                  !.conv = conversation_id]]
    /\ UNCHANGED <<lock, txn, storeVars, selVars, appVars>>

\* The read, from the lock to the return: nothing in it waits on anything but
\* the database.
ReadRun(t) ==
    /\ pc[t] = "lock" /\ call[t].op = "get_conversation_messages"
    /\ lock = Free
    /\ TablesExist
    /\ Returned(call[t].conv, default_media_context_limit,
                get_conversation_messages(call[t].conv, default_media_context_limit))
    /\ pc' = [pc EXCEPT ![t] = "idle"]
    /\ call' = [call EXCEPT ![t] = NoCall]
    /\ UNCHANGED <<lock, txn, schema, conversations, msg_rows, media_files, next_msg_id,
                   next_conv, disk, clock, selVars, appVars>>

\* A task calls delete_conversation and waits for the lock.
DeleteBegin(t, conversation_id) ==
    /\ pc[t] = "idle"
    /\ pc' = [pc EXCEPT ![t] = "lock"]
    /\ call' = [call EXCEPT ![t] = [NoCall EXCEPT !.op = "delete_conversation",
                                                  !.conv = conversation_id]]
    /\ UNCHANGED <<lock, txn, storeVars, selVars, appVars>>

\* Steps 1 and 2: the SELECT of the local paths, and the unlink of each file.
DeleteAcquire(t) ==
    /\ pc[t] = "lock" /\ call[t].op = "delete_conversation"
    /\ lock = Free
    /\ TablesExist
    /\ lock' = t
    /\ txn' = Opened(t)
    /\ disk' = delete_conversation(call[t].conv).disk
    /\ pc' = [pc EXCEPT ![t] = "delete_media"]
    /\ UNCHANGED <<call, last, schema, conversations, msg_rows, media_files, next_msg_id,
                   next_conv, clock, selVars, appVars>>

\* Step 3: DELETE FROM media_files WHERE message_id IN (SELECT id ...)
DeleteMedia(t) ==
    /\ pc[t] = "delete_media"
    /\ Execute([Working EXCEPT !.media_files =
                   {r \in @ : ~\E m \in txn.msg_rows :
                                  m.id = r.message_id /\ m.conversation_id = call[t].conv}])
    /\ pc' = [pc EXCEPT ![t] = "delete_messages"]
    /\ UNCHANGED <<call, lock, last, schema, next_conv, disk, clock, selVars, appVars>>

\* Step 4: DELETE FROM messages WHERE conversation_id = ?
DeleteMessages(t) ==
    /\ pc[t] = "delete_messages"
    /\ Execute([Working EXCEPT !.msg_rows = {m \in @ : m.conversation_id # call[t].conv}])
    /\ pc' = [pc EXCEPT ![t] = "delete_row"]
    /\ UNCHANGED <<call, lock, last, schema, next_conv, disk, clock, selVars, appVars>>

\* Step 4: DELETE FROM conversations WHERE id = ?
DeleteRow(t) ==
    /\ pc[t] = "delete_row"
    /\ Execute([Working EXCEPT !.conversations = {c \in @ : c.id # call[t].conv}])
    /\ pc' = [pc EXCEPT ![t] = "commit"]
    /\ UNCHANGED <<call, lock, last, schema, next_conv, disk, clock, selVars, appVars>>

DeleteCommit(t) ==
    /\ pc[t] = "commit"
    /\ CommitAndReturn(t)
    /\ UNCHANGED <<schema, next_conv, disk, clock, selVars, appVars>>

\* task.cancel(): the CancelledError is raised at the await the task is in.
Cancel(t) ==
    /\ pc[t] # "idle"
    /\ IF lock = t
       THEN Unwind(t, "cancelled")
       ELSE /\ pc' = [pc EXCEPT ![t] = "idle"]
            /\ call' = [call EXCEPT ![t] = NoCall]
            /\ last' = [op |-> call[t].op, outcome |-> "cancelled", conv |-> call[t].conv,
                        msg |-> 0, ok_urls |-> {}, before |-> Tables, at |-> pc[t]]
            /\ UNCHANGED <<lock, txn, conversations, msg_rows, media_files, next_msg_id>>
    /\ UNCHANGED <<schema, next_conv, disk, clock, selVars, appVars>>

\* The calls of the tasks: t1 stores the replies of an image model and
\* deletes conversations, t2 stores the user's texts and reads.
TaskArgs(t) ==
    IF t = "t1" THEN {a \in UrlArgs : a.bot_name = "DALL-E-3"}
                ELSE {a \in UrlArgs : a.content = <<"hi">>}

Deleters == {"t1"}
Readers  == {"t2"}

AllIdle == \A t \in Tasks : pc[t] = "idle"

\* How many messages are in the store when the last append of the tasks begins.
MaxTaskMsgs == 1

TasksNext ==
    \/ AllIdle /\ Initialize
    \/ AllIdle /\ next_conv = 0 /\ CreateConversation("DALL-E-3", "chatbot")
    \/ \E t \in Tasks, c \in ConvIds \ {0} : \E a \in TaskArgs(t) :
         next_msg_id <= MaxTaskMsgs /\ AddBegin(t, c, a)
    \/ \E t \in Tasks : AddAcquire(t)
    \/ \E t \in Tasks : AddUrl(t)
    \/ \E t \in Tasks, outcome \in FetchOutcomes : AddFetched(t, outcome)
    \/ \E t \in Tasks : AddCommit(t)
    \/ \E t \in Readers, c \in ConvIds \ {0} : ReadBegin(t, c)
    \/ \E t \in Tasks : ReadRun(t)
    \/ \E t \in Deleters, c \in ConvIds \ {0} : DeleteBegin(t, c)
    \/ \E t \in Tasks : DeleteAcquire(t)
    \/ \E t \in Tasks : DeleteMedia(t)
    \/ \E t \in Tasks : DeleteMessages(t)
    \/ \E t \in Tasks : DeleteRow(t)
    \/ \E t \in Tasks : DeleteCommit(t)
    \/ \E t \in Tasks : Cancel(t)

SpecTasks == Init /\ [][TasksNext]_vars

(***************************************************************************)
(* SpecWin: conversations of an image model and of a text model, appended  *)
(* to within one second or across seconds, and read back with a media      *)
(* context limit.                                                          *)
(***************************************************************************)

\* The media_context_limit arguments of the reads.
MediaContextLimits == {1, 2}

\* The conversations are created in the first second: the reads of this
\* specification never select updated_at.
WinNext ==
    \/ Initialize
    \/ \E b \in {"DALL-E-3", "GPT-4o"} : clock = 0 /\ next_conv < MaxConvs /\ CreateConversation(b, "chatbot")
    \/ \E c \in ConvIds \ {0}, a \in TextArgs :
         next_msg_id <= MaxWinMsgs /\ AddMessage(c, a, <<>>)
    \/ Tick
    \/ \E c \in ConvIds, n \in MediaContextLimits : GetConversationMessages(c, n)

SpecWin == Init /\ [][WinNext]_vars

(***************************************************************************)
(* SpecWeb: the web application (web/app.py, interfaces/web/app.py) and    *)
(* the client under it (PoeChatClient.send_message).  Two handlers run in  *)
(* one event loop: t1 serves POST /api/conversation/{id}/send, t2 the      *)
(* WebSocket /ws/chat/{id}.  A handler is taken apart at its awaits of the *)
(* store and of the remote bot.  No request names a chat_mode.             *)
(***************************************************************************)

WebBots == {"GPT-4", "Claude-3-Sonnet"}

\* message_data.message, the same text in every request, and the bot's reply
UserText  == <<"q1">>
ReplyText == <<"a1">>

Rest == "t1"
Ws   == "t2"

\* str(e) of the HTTPException raised inside the try block: Starlette's
\* __str__ gives "<status_code>: <detail>"; releases without __str__ give the
\* empty string, the exception being constructed with keyword arguments only.
StrOfHTTPException(status_code, detail) == {status_code \o ": " \o detail, ""}

CannotChangeBot == "Cannot change bot mid-conversation."
NotFound        == "Conversation not found"

\* The store call await self.history.add_message(...) applied to the tables.
StoreWrites(r) ==
    /\ msg_rows' = r.msg_rows
    /\ media_files' = r.media_files
    /\ next_msg_id' = r.next_msg_id
    /\ disk' = r.disk

HistoryAdd(conversation_id, role, content, bot_name) ==
    StoreWrites(add_message(conversation_id, role, content, bot_name, TRUE, <<>>))

\* [{'role': msg['role'], 'content': msg['content']} for msg in existing_messages]
ApiMessages(existing_messages) ==
    [i \in 1..Len(existing_messages) |->
        [role |-> existing_messages[i].role, content |-> existing_messages[i].content]]

\* The handler of task t is over: what it answered and what it did.
Finish(t, status, detail, locked) ==
    /\ last' = [op |-> "send", task |-> t, status |-> status, detail |-> detail,
                conv |-> call[t].conv, requested |-> call[t].requested,
                locked |-> locked, in_client |-> call[t].in_client,
                users_saved |-> call[t].users_saved,
                replies_saved |-> call[t].replies_saved,
                remote_calls |-> call[t].remote_calls]
    /\ pc' = [pc EXCEPT ![t] = "idle"]
    /\ call' = [call EXCEPT ![t] = NoCall]

\* A request arrives: the path names the conversation, the body the bot
\* (REST: bot_name is optional).
WebReceive(t, conversation_id, bot_name) ==
    /\ pc[t] = "idle"
    /\ pc' = [pc EXCEPT ![t] = "lookup"]
    /\ call' = [call EXCEPT ![t] =
                  [op |-> "send", conv |-> conversation_id, requested |-> bot_name,
                   conversation_bot |-> None, bot_name |-> None, locked |-> FALSE,
                   in_client |-> FALSE, context |-> <<>>,
                   users_saved |-> 0, replies_saved |-> 0, remote_calls |-> 0]]
    /\ session' = [session EXCEPT !.requests = @ + 1]
    /\ UNCHANGED <<lock, txn, storeVars, selVars, remote>>

\* conversations = await self.client.get_conversations();
\* conversation = next((c for c in conversations if c['id'] == conversation_id), None).
\* REST raises HTTPException(404) inside the try block, whose
\* `except Exception` turns it into HTTPException(500, detail=str(e)); the
\* WebSocket handler sends an error message.
WebLookup(t) ==
    /\ pc[t] = "lookup"
    /\ IF \E c \in conversations : c.id = call[t].conv
       THEN /\ pc' = [pc EXCEPT ![t] = "validate"]
            /\ call' = [call EXCEPT ![t].conversation_bot =
                          (CHOOSE c \in conversations : c.id = call[t].conv).bot_name]
            /\ UNCHANGED last
       ELSE IF t = Rest
            THEN \E detail \in StrOfHTTPException("404", NotFound) : Finish(t, "500", detail, FALSE)
            ELSE Finish(t, "error", NotFound, FALSE)
    /\ UNCHANGED <<lock, txn, schema, conversations, msg_rows, media_files, next_msg_id,
                   next_conv, disk, clock, selVars, appVars>>

UserMessages(existing_messages) ==
    SelectSeq(existing_messages, LAMBDA msg : msg.role = "user")

\* REST: user_messages and message_data.bot_name and message_data.bot_name != conversation_bot
\* WebSocket: user_messages and requested_bot != conversation_bot
BotChangeRefused(t, existing_messages) ==
    /\ existing_messages # <<>>
    /\ UserMessages(existing_messages) # <<>>
    /\ t = Rest => call[t].requested # None
    /\ call[t].requested # call[t].conversation_bot

\* bot_name = conversation_bot for a conversation with messages; for one
\* without, REST takes message_data.bot_name or conversation_bot, the
\* WebSocket requested_bot.
BotFor(t, existing_messages) ==
    IF existing_messages # <<>> THEN call[t].conversation_bot
    ELSE IF call[t].requested # None THEN call[t].requested
    ELSE call[t].conversation_bot

\* existing_messages = await self.client.get_conversation_messages(conversation_id)
\* and the validation that follows it.
Validated(t, existing_messages) ==
    IF BotChangeRefused(t, existing_messages)
    THEN IF t = Rest
         THEN \E detail \in StrOfHTTPException("400", CannotChangeBot) :
                 Finish(t, "500", detail, TRUE)
         ELSE Finish(t, "error", CannotChangeBot, TRUE)
    ELSE /\ pc' = [pc EXCEPT ![t] = "context"]
         /\ call' = [call EXCEPT ![t].bot_name = BotFor(t, existing_messages),
                                  ![t].locked = UserMessages(existing_messages) # <<>>,
                                  ![t].in_client = TRUE]
         /\ UNCHANGED last

WebValidate(t) ==
    /\ pc[t] = "validate"
    /\ Validated(t, get_conversation_messages(call[t].conv, default_media_context_limit))
    /\ UNCHANGED <<lock, txn, schema, conversations, msg_rows, media_files, next_msg_id,
                   next_conv, disk, clock, selVars, appVars>>

\* PoeChatClient.send_message(message, bot_name, conversation_id, save_history=True):
\* existing_messages = await self.get_conversation_messages(conversation_id),
\* then conversation_messages with the new user message at the end.
ClientContext(t) ==
    /\ pc[t] = "context"
    /\ pc' = [pc EXCEPT ![t] = "save_user"]
    /\ call' = [call EXCEPT ![t].context =
                  Append(ApiMessages(get_conversation_messages(call[t].conv,
                                                               default_media_context_limit)),
                         [role |-> "user", content |-> UserText])]
    /\ UNCHANGED <<lock, txn, storeVars, selVars, appVars>>

\* The bot a conversation's first stored user message was on its way to.
FirstBot(first_bot, conversation_id, bot_name) ==
    IF \E m \in msg_rows : m.conversation_id = conversation_id /\ m.role = "user"
    THEN first_bot
    ELSE first_bot \cup {[conv |-> conversation_id, bot |-> bot_name]}

\* await self.history.add_message(conversation_id, role="user", content=message, ...)
SaveUser(t, next) ==
    /\ HistoryAdd(call[t].conv, "user", UserText, call[t].bot_name)
    /\ session' = [session EXCEPT !.first_bot = FirstBot(@, call[t].conv, call[t].bot_name)]
    /\ pc' = [pc EXCEPT ![t] = next]
    /\ call' = [call EXCEPT ![t].users_saved = @ + 1]
    /\ UNCHANGED <<lock, txn, schema, conversations, next_conv, clock, last, remote, selVars>>

ClientSaveUser(t) == pc[t] = "save_user" /\ SaveUser(t, "remote")

\* fp.get_bot_response(messages, bot_name): one call to the remote bot.
RemoteCall(t, sent) ==
    remote' = Append(remote, [conv |-> call[t].conv, bot |-> call[t].bot_name,
                              sent |-> sent, by |-> t, locked |-> call[t].locked])

\* The except clause around the history path swallows whatever the remote
\* call raised, and send_message goes on with its single-message path.
RemoteRaised(t) ==
    /\ pc' = [pc EXCEPT ![t] = "fallback_save_user"]
    /\ call' = [call EXCEPT ![t].remote_calls = @ + 1]
    /\ RemoteCall(t, call[t].context)
    /\ UNCHANGED last

\* async for partial in self.send_conversation(messages=conversation_messages,
\* bot_name, conversation_id, save_history=False): the remote call streams the
\* reply or raises.
ClientRemote(t, outcome) ==
    /\ pc[t] = "remote"
    /\ IF outcome = "ok"
       THEN /\ pc' = [pc EXCEPT ![t] = "save_reply"]
            /\ call' = [call EXCEPT ![t].remote_calls = @ + 1]
            /\ RemoteCall(t, call[t].context)
            /\ UNCHANGED last
       ELSE RemoteRaised(t)
    /\ UNCHANGED <<lock, txn, schema, conversations, msg_rows, media_files, next_msg_id,
                   next_conv, disk, clock, session, selVars>>

\* await self.history.add_message(conversation_id, role="assistant",
\* content=full_response, ...), after which the handler answers.
SaveReply(t) ==
    /\ HistoryAdd(call[t].conv, "assistant", ReplyText, call[t].bot_name)
    /\ last' = [op |-> "send", task |-> t,
                status |-> IF t = Rest THEN "200" ELSE "bot_response_end",
                detail |-> "", conv |-> call[t].conv, requested |-> call[t].requested,
                locked |-> call[t].locked, in_client |-> TRUE,
                users_saved |-> call[t].users_saved,
                replies_saved |-> call[t].replies_saved + 1,
                remote_calls |-> call[t].remote_calls]
    /\ pc' = [pc EXCEPT ![t] = "idle"]
    /\ call' = [call EXCEPT ![t] = NoCall]
    /\ UNCHANGED <<lock, txn, schema, conversations, next_conv, clock, selVars, appVars>>

ClientSaveReply(t) == pc[t] = "save_reply" /\ SaveReply(t)

\* The single-message path: the user message is saved,
FallbackSaveUser(t) == pc[t] = "fallback_save_user" /\ SaveUser(t, "fallback_remote")

\* the message alone goes to the bot (an exception leaves send_message now),
FallbackRemote(t, outcome) ==
    /\ pc[t] = "fallback_remote"
    /\ RemoteCall(t, <<[role |-> "user", content |-> UserText]>>)
    /\ IF outcome = "ok"
       THEN /\ pc' = [pc EXCEPT ![t] = "fallback_save_reply"]
            /\ call' = [call EXCEPT ![t].remote_calls = @ + 1]
            /\ UNCHANGED last
       ELSE /\ last' = [op |-> "send", task |-> t,
                        status |-> IF t = Rest THEN "500" ELSE "error",
                        detail |-> "remote", conv |-> call[t].conv,
                        requested |-> call[t].requested,
                        locked |-> call[t].locked, in_client |-> TRUE,
                        users_saved |-> call[t].users_saved,
                        replies_saved |-> call[t].replies_saved,
                        remote_calls |-> call[t].remote_calls + 1]
            /\ pc' = [pc EXCEPT ![t] = "idle"]
            /\ call' = [call EXCEPT ![t] = NoCall]
    /\ UNCHANGED <<lock, txn, schema, conversations, msg_rows, media_files, next_msg_id,
                   next_conv, disk, clock, session, selVars>>

\* and the reply is saved.
FallbackSaveReply(t) == pc[t] = "fallback_save_reply" /\ SaveReply(t)

\* The bot names a request can carry: REST may leave bot_name out.
RequestBots(t) == IF t = Rest THEN WebBots \cup {None} ELSE WebBots

\* The requests the application takes up.
MaxWebSends == 2

\* The application has run initialize() on a path without database file.
WebInit ==
    /\ SelIdle
    /\ schema = EnhancedSchema
    /\ conversations = {}
    /\ msg_rows = {}
    /\ StoreEmpty

WebNext ==
    \/ next_conv = 0 /\ CreateConversation("GPT-4", "chatbot")
    \/ \E t \in Tasks, c \in ConvIds : \E b \in RequestBots(t) :
         session.requests < MaxWebSends /\ WebReceive(t, c, b)
    \/ \E t \in Tasks : WebLookup(t)
    \/ \E t \in Tasks : WebValidate(t)
    \/ \E t \in Tasks : ClientContext(t)
    \/ \E t \in Tasks : ClientSaveUser(t)
    \/ \E t \in Tasks, outcome \in {"ok", "raises"} : ClientRemote(t, outcome)
    \/ \E t \in Tasks : ClientSaveReply(t)
    \/ \E t \in Tasks : FallbackSaveUser(t)
    \/ \E t \in Tasks, outcome \in {"ok", "raises"} : FallbackRemote(t, outcome)
    \/ \E t \in Tasks : FallbackSaveReply(t)

SpecWeb == WebInit /\ [][WebNext]_vars

(***************************************************************************)
(* SpecSession: a multi-turn session on top of send_conversation, the      *)
(* interactive mode of the CLI (cli.py) or a user session of the legacy    *)
(* Slack bot (slack_bot.py).  The session keeps the transcript in memory   *)
(* and hands all of it to send_conversation(..., save_history=True) at     *)
(* every turn, without a conversation_id.                                  *)
(***************************************************************************)

Session == "t1"

\* What the user types at turn k and what the bot replies to it.
TurnTexts   == << <<"q1">>, <<"q2">>, <<"q3">> >>
TurnReplies == << <<"a1">>, <<"a2">>, <<"a3">> >>

MaxTurns == 2

SessionApps == {"cli", "slack_bot"}

_convert_role_for_history(role) == IF role = "bot" THEN "assistant" ELSE role

\* The turns the session has begun: the user messages of the transcript.
Turns == Len(SelectSeq(session.conversation, LAMBDA msg : msg.role = "user"))

\* conversation.append({"role": "user", "content": message}), and the call of
\* client.send_conversation(conversation, bot_name=bot, save_history=True).
Prompt(app) ==
    /\ pc[Session] = "idle"
    /\ session.app \in {None, app}
    /\ session' = [session EXCEPT
                     !.app = app,
                     !.conversation = Append(@, [role |-> "user",
                                                 content |-> TurnTexts[Turns + 1]])]
    /\ pc' = [pc EXCEPT ![Session] = "create"]
    /\ call' = [call EXCEPT ![Session] =
                  [op |-> "send_conversation", conv |-> 0, bot_name |-> "GPT-4",
                   locked |-> FALSE, i |-> 1]]
    /\ UNCHANGED <<lock, txn, storeVars, selVars, remote>>

\* conversation_id is None and save_history: a conversation is created.
ConversationCreate ==
    /\ pc[Session] = "create"
    /\ conversations' = conversations \cup
                          {NewConversation(next_conv + 1, call[Session].bot_name, "chatbot")}
    /\ next_conv' = next_conv + 1
    /\ pc' = [pc EXCEPT ![Session] = "save"]
    /\ call' = [call EXCEPT ![Session].conv = next_conv + 1]
    /\ UNCHANGED <<lock, txn, schema, msg_rows, media_files, next_msg_id, disk, clock,
                   last, selVars, appVars>>

\* for msg in messages: await self.history.add_message(conversation_id,
\* role=self._convert_role_for_history(msg["role"]), content=msg["content"], ...)
ConversationSave ==
    /\ pc[Session] = "save"
    /\ call[Session].i <= Len(session.conversation)
    /\ HistoryAdd(call[Session].conv,
                  _convert_role_for_history(session.conversation[call[Session].i].role),
                  session.conversation[call[Session].i].content,
                  call[Session].bot_name)
    /\ call' = [call EXCEPT ![Session].i = @ + 1]
    /\ UNCHANGED <<lock, txn, pc, schema, conversations, next_conv, clock, last,
                   selVars, appVars>>

\* fp.get_bot_response(messages=poe_messages, ...).  When it raises, the CLI
\* leaves its loop and the session is over; the Slack handler answers with
\* the error and the session goes on.
ConversationRemote(outcome) ==
    /\ pc[Session] = "save"
    /\ call[Session].i > Len(session.conversation)
    /\ RemoteCall(Session, session.conversation)
    /\ pc' = [pc EXCEPT ![Session] =
                IF outcome = "ok" THEN "save_reply"
                ELSE IF session.app = "cli" THEN "over" ELSE "idle"]
    /\ UNCHANGED <<lock, txn, call, storeVars, selVars, session>>

\* The reply is saved; back in the caller,
\* conversation.append({"role": "bot", "content": bot_response}).
ConversationSaveReply ==
    /\ pc[Session] = "save_reply"
    /\ HistoryAdd(call[Session].conv, "assistant", TurnReplies[Turns], call[Session].bot_name)
    /\ session' = [session EXCEPT
                     !.conversation = Append(@, [role |-> "bot",
                                                 content |-> TurnReplies[Turns]])]
    /\ pc' = [pc EXCEPT ![Session] = "idle"]
    /\ UNCHANGED <<lock, txn, call, schema, conversations, next_conv, clock, last,
                   selVars, remote>>

SessionNext ==
    \/ \E app \in SessionApps : Turns < MaxTurns /\ Prompt(app)
    \/ ConversationCreate
    \/ ConversationSave
    \/ \E outcome \in {"ok", "raises"} : ConversationRemote(outcome)
    \/ ConversationSaveReply
    \/ Tick

SpecSession == WebInit /\ [][SessionNext]_vars

(***************************************************************************)
(* SpecSlack: the Slack bot (slack/bot.py) serving the direct messages of  *)
(* one user.  The bot keeps its conversation contexts in memory, which a   *)
(* restart of the process empties, and the messages in the store.          *)
(***************************************************************************)

\* conversation_id = f"slack_dm_{user_id}": an id of the bot's own making,
\* which uuid4 never hands out.
slack_dm == 0 - 1

default_model == "GPT-3.5-Turbo"

\* The dicts handed to _truncate_conversation_context: len(content) is all
\* that function reads of a content.
ContextMessages(msgs) ==
    [i \in 1..Len(msgs) |->
        [role    |-> msgs[i].role,
         content |-> [chars |-> Len(Text(msgs[i].content)), tag |-> msgs[i].content]]]

\* A direct message arrives: _handle_direct_message.
SlackEvent ==
    /\ pc[Session] = "idle"
    /\ pc' = [pc EXCEPT ![Session] = "context"]
    /\ call' = [call EXCEPT ![Session] =
                  [op |-> "chat", conv |-> slack_dm, bot_name |-> default_model,
                   locked |-> FALSE, context |-> <<>>, stored |-> <<>>,
                   text |-> TurnTexts[(Len(remote) % Len(TurnTexts)) + 1]]]
    /\ UNCHANGED <<lock, txn, storeVars, selVars, appVars>>

\* _get_or_create_conversation_context: a context in memory is returned;
\* otherwise the conversations are listed and, when none has the Slack id,
\* create_conversation(title, "GPT-3.5-Turbo", chat_mode) inserts a row,
\* under an id of its own.
SlackContext ==
    /\ pc[Session] = "context"
    /\ IF slack_dm \in session.conversation_contexts
       THEN UNCHANGED <<conversations, next_conv, session>>
       ELSE /\ IF \E c \in conversations : c.id = slack_dm
               THEN UNCHANGED <<conversations, next_conv>>
               ELSE /\ conversations' = conversations \cup
                         {NewConversation(next_conv + 1, default_model, "slack_dm")}
                    /\ next_conv' = next_conv + 1
            /\ session' = [session EXCEPT !.conversation_contexts = @ \cup {slack_dm}]
    /\ pc' = [pc EXCEPT ![Session] = "history"]
    /\ UNCHANGED <<lock, txn, call, schema, msg_rows, media_files, next_msg_id, disk,
                   clock, last, selVars, remote>>

\* _handle_chat_message: the history is read, the new user message goes to
\* its end and the list is truncated for the context's model.  stored: the
\* rows the store holds under the context's id at this moment.
SlackHistory ==
    /\ pc[Session] = "history"
    /\ call' = [call EXCEPT
                  ![Session].context =
                      _truncate_conversation_context(
                          ContextMessages(
                              Append(ApiMessages(get_conversation_messages(
                                                    slack_dm, default_media_context_limit)),
                                     [role |-> "user", content |-> call[Session].text])),
                          call[Session].bot_name).ret,
                  ![Session].stored = ApiMessages(StoredMessages(slack_dm))]
    /\ pc' = [pc EXCEPT ![Session] = "save_user"]
    /\ UNCHANGED <<lock, txn, storeVars, selVars, appVars>>

\* await self.history.add_message(context.conversation_id, role="user", content=text)
SlackSaveUser ==
    /\ pc[Session] = "save_user"
    /\ HistoryAdd(slack_dm, "user", call[Session].text, None)
    /\ pc' = [pc EXCEPT ![Session] = "remote"]
    /\ UNCHANGED <<lock, txn, call, schema, conversations, next_conv, clock, last,
                   selVars, appVars>>

\* self.poe_client.send_conversation(messages=conversation_messages,
\* bot_name=context.preferred_model, save_history=False); an exception ends
\* the handler with an error reply.
SlackRemote(outcome) ==
    /\ pc[Session] = "remote"
    /\ remote' = Append(remote, [conv |-> slack_dm, bot |-> call[Session].bot_name,
                                 sent |-> call[Session].context, by |-> Session,
                                 locked |-> FALSE, stored |-> call[Session].stored,
                                 text |-> call[Session].text])
    /\ pc' = [pc EXCEPT ![Session] = IF outcome = "ok" THEN "save_reply" ELSE "idle"]
    /\ UNCHANGED <<lock, txn, call, storeVars, selVars, session>>

\* await self.history.add_message(context.conversation_id, role="assistant",
\* content=full_response, bot_name=context.preferred_model)
SlackSaveReply ==
    /\ pc[Session] = "save_reply"
    /\ HistoryAdd(slack_dm, "assistant", TurnReplies[((Len(remote) - 1) % Len(TurnReplies)) + 1],
                  call[Session].bot_name)
    /\ pc' = [pc EXCEPT ![Session] = "idle"]
    /\ UNCHANGED <<lock, txn, call, schema, conversations, next_conv, clock, last,
                   selVars, appVars>>

\* The process is started again: the contexts in memory are gone.
SlackRestart ==
    /\ pc[Session] = "idle"
    /\ session.conversation_contexts # {}
    /\ session' = [session EXCEPT !.conversation_contexts = {}]
    /\ UNCHANGED <<storeVars, taskVars, selVars, remote>>

MaxChats == 2

SlackNext ==
    \/ Len(remote) < MaxChats /\ SlackEvent
    \/ SlackContext
    \/ SlackHistory
    \/ SlackSaveUser
    \/ \E outcome \in {"ok", "raises"} : SlackRemote(outcome)
    \/ SlackSaveReply
    \/ next_conv <= MaxConvs /\ SlackRestart
    \/ Tick

SpecSlack == WebInit /\ [][SlackNext]_vars

(***************************************************************************)
(* SpecLog: every operation of the store, reads included, on a database    *)
(* the store created.                                                      *)
(***************************************************************************)

MaxLogMsgs == 2

\* A user's text, and an image model's reply with one URL and a user's message
\* with the same URL, both fetched.
LogArgs == {
    [role |-> "user",      content |-> <<"hi">>,   bot_name |-> None],
    [role |-> "user",      content |-> <<PoeUrl>>, bot_name |-> None],
    [role |-> "assistant", content |-> <<PoeUrl>>, bot_name |-> "DALL-E-3"] }

LogNext ==
    \/ Initialize
    \/ next_conv < MaxConvs /\ CreateConversation("DALL-E-3", "chatbot")
    \/ \E c \in ConvIds \ {0}, a \in LogArgs :
         next_msg_id <= MaxLogMsgs
           /\ AddMessage(c, a, [i \in 1..Len(DetectedUrls(a.content)) |-> "200"])
    \/ GetConversations
    \/ \E c \in ConvIds : GetConversationMessages(c, default_media_context_limit)
    \/ \E c \in ConvIds : DeleteConversation(c)
    \/ CleanupOrphanedMedia

SpecLog == Init /\ [][LogNext]_vars

(***************************************************************************)
(* Claims about the store.                                                 *)
(***************************************************************************)

IsAdd == last.op = "add_message"

HasRepeat(urls) == \E i, j \in 1..Len(urls) : i # j /\ urls[i] = urls[j]

MessageCommitted ==
    \E m \in msg_rows : /\ m.id = last.msg
                        /\ m.conversation_id = last.conv
                        /\ m.content = last.content

\* C4: an append that references a media URL which an earlier append has
\* already put on disk leaves exactly one file for that URL, sends no request
\* for it (a cache hit), and the URL counts once in get_media_stats.
C4_OneFilePerUrl ==
    IsAdd =>
        \A u \in last.info.on_disk_before :
            /\ Cardinality(FilesFor(disk, u)) = 1
            /\ u \notin last.info.fetched
            /\ Cardinality({r \in media_files : r.file_hash = Md5Memo[u]}) = 1
            /\ get_media_stats_total_files
                 = Cardinality({r.file_hash : r \in media_files})

\* C5: an append whose URL is already recorded in media_files (or occurs
\* twice in the content) is treated as already cached: add_message returns
\* and the message row is persisted.
C5_DuplicateHashIsCacheHit ==
    (IsAdd /\ (last.info.recorded_before # {} \/ HasRepeat(last.info.urls))) =>
        /\ last.outcome = "returned"
        /\ MessageCommitted

C7_FailedFetchDegrades ==
    (IsAdd /\ last.info.failed # {}) =>
        /\ last.outcome = "returned"
        /\ MessageCommitted
        /\ \A u \in last.info.failed :
              ~\E r \in media_files : r.message_id = last.msg /\ r.original_url = u
        /\ \A u \in last.info.fetched \ last.info.failed :
              \E r \in media_files : r.message_id = last.msg /\ r.original_url = u

NewColumnsPresent ==
    \A i \in 1..Len(MigrationSteps) :
        MigrationSteps[i].column \in schema[MigrationSteps[i].table]

\* C8: initialize run a second time on the same database leaves the tables,
\* the columns and every row as the first run left them, and no run issues
\* an ADD COLUMN for a column the table already has.
C8_MigrationIdempotent ==
    last.op = "initialize" =>
        /\ last.readded = {}
        /\ last.again => ~last.changed

\* the second run on a database whose first run changed it
C8_Witness ==
    /\ last.op = "initialize"
    /\ last.again
    /\ conversations # {}
    /\ "chat_mode" \in schema["conversations"]
    /\ \A c \in conversations : c.chat_mode = "chatbot"

\* C9: when adding a missing column fails during the migration, initialize
\* surfaces the failure to its caller.
C9_MigrationFailureSurfaces ==
    (last.op = "initialize" /\ last.alter_failed) => last.outcome = "raised"

\* C10: after initialize on a database of the basic schema (or one left partly
\* migrated) the four newer columns exist, all rows are retained with their
\* values, and exactly the columns that were missing have been added.
C10_OldDatabaseMigrated ==
    (last.op = "initialize" /\ last.outcome = "returned") =>
        /\ NewColumnsPresent
        /\ last.rows_kept
        /\ last.added = last.missing_before

(***************************************************************************)
(* SpecSel: the selector applied to bounded inputs.                        *)
(***************************************************************************)

\* The longest run of messages drawn freely behind the filler prefix.
MaxTail == 3

\* Model names handed to the selector: table entries, names resolved through
\* the family heuristic, and names that fall through to "Default".
ModelNames == {"GPT-3.5-Turbo", "GPT-4o", "Gemini-Ultra", "Llama-3-70B", "Mistral-7B",
               "Claude-4-Opus"}

\* Content lengths around the token budget of the model: 11, T-15, T and T+1
\* estimated tokens.
ContentLens(name) ==
    LET T == _get_model_limits(name).max_tokens
    IN  {7, 4 * (T - 25), 4 * (T - 10), 4 * (T - 9)}

\* Numbers of short messages in front, around the message budget of the model.
FillCounts(name) ==
    LET M == _get_model_limits(name).max_messages
    IN  {0, M - 2, M}

Role(i) == IF i % 2 = 1 THEN "user" ELSE "assistant"

\* k short messages followed by the messages of the given lengths.
MakeMessages(k, tail) ==
    [i \in 1..(k + Len(tail)) |->
        [role    |-> Role(i),
         content |-> [chars |-> IF i <= k THEN 0 ELSE tail[i - k], tag |-> i]]]

StoreIdle ==
    /\ schema = [t \in DOMAIN BasicSchema |-> {}]
    /\ conversations = {}
    /\ msg_rows = {}
    /\ StoreEmpty

SelInit ==
    /\ sel_pc = "start"
    /\ model_name \in ModelNames
    /\ \E k \in FillCounts(model_name) :
       \E n \in 0..MaxTail :
       \E tail \in [1..n -> ContentLens(model_name)] :
           messages = MakeMessages(k, tail)
    /\ result = <<>>
    /\ sel_in = <<>>
    /\ sel_limits = None
    /\ StoreIdle

\* context_messages = self._truncate_conversation_context(messages, model)
Truncate ==
    /\ sel_pc = "start"
    /\ LET r == _truncate_conversation_context(messages, model_name)
       IN  /\ result' = r.ret
           /\ messages' = r.arg
    /\ sel_limits' = _get_model_limits(model_name)
    /\ sel_in' = messages
    /\ sel_pc' = "done"
    /\ UNCHANGED <<model_name, storeVars, taskVars, appVars>>

SelNext == Truncate

SpecSel == SelInit /\ [][SelNext]_vars

(***************************************************************************)
(* Claims about the selector.  The budgets and the estimate are restated   *)
(* here from the claims: len(content) // 4 + 10 tokens per message.        *)
(***************************************************************************)

ClaimTokens(m) == (m.content.chars \div 4) + 10

RECURSIVE ClaimSumRange(_, _, _)
ClaimSumRange(msgs, lo, hi) ==
    IF lo > hi THEN 0
    ELSE IF lo = hi THEN ClaimTokens(msgs[lo])
    ELSE ClaimSumRange(msgs, lo, (lo + hi) \div 2)
         + ClaimSumRange(msgs, ((lo + hi) \div 2) + 1, hi)

ClaimSum(msgs, n) == ClaimSumRange(msgs, 1, n)

IsSuffix(s, t) ==
    /\ Len(s) <= Len(t)
    /\ s = SubSeq(t, Len(t) - Len(s) + 1, Len(t))

SelLimits == _get_model_limits(model_name)

SelWithin ==
    /\ Len(sel_in) <= SelLimits.max_messages
    /\ ClaimSum(sel_in, Len(sel_in)) <= SelLimits.max_tokens

NewestAloneTooBig ==
    /\ sel_in # <<>>
    /\ ClaimTokens(sel_in[Len(sel_in)]) > SelLimits.max_tokens

\* C1: for a non-empty message list the selector returns at least one
\* message, and when the newest message alone exceeds max_tokens the result
\* is exactly that newest message.
C1_NeverEmpty ==
    (sel_pc = "done" /\ sel_in # <<>>) =>
        /\ Len(result) >= 1
        /\ NewestAloneTooBig => result = <<sel_in[Len(sel_in)]>>

C1_Witness ==
    /\ sel_pc = "done"
    /\ Len(sel_in) > 1
    /\ NewestAloneTooBig
    /\ result = <<sel_in[Len(sel_in)]>>

\* C2: within both budgets the selector returns the input unchanged;
\* otherwise the result is a contiguous suffix of the input in the original
\* order; the input list itself is never modified.
C2_UnchangedOrSuffix ==
    sel_pc = "done" =>
        /\ SelWithin => result = sel_in
        /\ ~SelWithin => IsSuffix(result, sel_in)
        /\ messages = sel_in

C2_Witness ==
    /\ sel_pc = "done"
    /\ ~SelWithin
    /\ Len(result) > 1
    /\ Len(result) < Len(sel_in)
    /\ result[1].content.chars # result[2].content.chars

C2_WitnessUnchanged ==
    /\ sel_pc = "done"
    /\ SelWithin
    /\ Len(sel_in) > 1

\* C3: when the selector truncates and the newest message alone fits, the
\* result is the longest suffix within both budgets: it satisfies both, and
\* prepending the next older message would violate one of them.
C3_LongestFittingSuffix ==
    (sel_pc = "done" /\ ~SelWithin /\ ~NewestAloneTooBig) =>
        /\ IsSuffix(result, sel_in)
        /\ Len(result) >= 1
        /\ Len(result) < Len(sel_in)
        /\ Len(result) <= SelLimits.max_messages
        /\ ClaimSum(result, Len(result)) <= SelLimits.max_tokens
        /\ \/ Len(result) + 1 > SelLimits.max_messages
           \/ ClaimSum(result, Len(result))
                + ClaimTokens(sel_in[Len(sel_in) - Len(result)]) > SelLimits.max_tokens

\* truncated by the token budget with room left in the message budget
C3_Witness ==
    /\ sel_pc = "done"
    /\ ~SelWithin
    /\ ~NewestAloneTooBig
    /\ Len(result) > 1
    /\ Len(result) < SelLimits.max_messages

\* truncated by the message budget with room left in the token budget
C3_WitnessByCount ==
    /\ sel_pc = "done"
    /\ ~SelWithin
    /\ Len(result) = SelLimits.max_messages
    /\ ClaimSum(sel_in, Len(sel_in)) <= SelLimits.max_tokens

(***************************************************************************)
(* The family rule of the limits, restated from the claim: the family of a *)
(* name is its first hyphen-delimited token.                               *)
(***************************************************************************)

Family(name) == SplitDash(name, 1, 1)[1]

FamilyEntries(name) ==
    {i \in 1..Len(model_context_limits) :
        /\ model_context_limits[i].name # "Default"
        /\ Family(model_context_limits[i].name) = Family(name)}

\* C17: a name in the table resolves to its entry; a name absent from the
\* table resolves to the limits of an entry of its own family (first
\* hyphen-delimited token); a name whose family is in no entry resolves to the
\* default, 12000 tokens and 40 messages.
C17_FamilyLimits ==
    sel_pc = "done" =>
        IF TableIndex(model_name) # {}
        THEN \E i \in TableIndex(model_name) : sel_limits = Limits(i)
        ELSE IF FamilyEntries(model_name) # {}
             THEN \E i \in FamilyEntries(model_name) : sel_limits = Limits(i)
             ELSE sel_limits = [max_tokens |-> 12000, max_messages |-> 40]

(***************************************************************************)
(* Claims about missing conversations, orphan cleanup, media detection and *)
(* the windowed read.                                                      *)
(***************************************************************************)

\* C14: on an initialised store, operations on a conversation id without a
\* conversations row never raise: get_conversation_messages returns the empty
\* list, and delete_conversation returns and leaves every table and the media
\* directory as they were.
C14_MissingConversationNoOp ==
    TablesExist =>
        /\ \A c \in ConvIds :
              (~\E row \in conversations : row.id = c) =>
                  get_conversation_messages(c, default_media_context_limit) = <<>>
        /\ (last.op = "delete_conversation" /\ ~last.had_row) =>
              /\ last.outcome = "returned"
              /\ ~last.changed

HasMessage(r) == \E m \in msg_rows : m.id = r.message_id

C16_CleanupReportsCount ==
    last.op = "cleanup_orphaned_media" =>
        /\ last.ret # None
        /\ last.ret = Cardinality(last.media_before \ media_files)

\* The claim's reading of "the content contains a media URL".
ClaimHasUrl(content) ==
    \E i \in 1..Len(content) :
        StartsWith(content[i], "http://") \/ StartsWith(content[i], "https://")

ClaimKnownMediaModels ==
    {"DALL-E-3", "FLUX.1-schnell", "FLUX.1-dev", "Stable-Diffusion-XL", "Imagen-3",
     "Imagen-3-Fast", "Runway-Gen-3", "Veo-2", "Kling-Pro-v1.5"}

\* C18: the content_type stored for a message is 'media' when a known media
\* model produced content with a media URL, 'mixed' when the content has a
\* media URL and the model is not a known media model, and 'text' otherwise,
\* a known media model without a URL included.
C18_Classification ==
    (IsAdd /\ last.outcome = "returned") =>
        \A m \in msg_rows : m.id = last.msg =>
            m.content_type =
                IF ClaimHasUrl(last.content)
                THEN IF last.bot_name \in ClaimKnownMediaModels THEN "media" ELSE "mixed"
                ELSE "text"

\* The window of the claim: the N most recent messages and the latest (at most
\* N) earlier messages whose content_type is media or mixed, in list order.
ClaimEarlierMedia(full, N) ==
    LET cand == {i \in 1..(Len(full) - N) : full[i].content_type \in {"media", "mixed"}}
    IN  {i \in cand : Cardinality({j \in cand : j > i}) < N}

ClaimKept(full, N) ==
    ClaimEarlierMedia(full, N) \cup ((Len(full) - N + 1)..Len(full))

RECURSIVE ClaimSubsequence(_, _, _)
ClaimSubsequence(full, kept, i) ==
    IF i > Len(full) THEN <<>>
    ELSE (IF i \in kept THEN <<full[i]>> ELSE <<>>) \o ClaimSubsequence(full, kept, i + 1)

IsRead == last.op = "get_conversation_messages" /\ last.outcome = "returned"

WindowApplies == last.is_media /\ Len(last.stored) > 2 * last.limit

\* C19: get_conversation_messages(id, N) returns the full list in stored order
\* unless the bot is a known media model and there are more than 2*N
\* messages; then it returns the N most recent messages plus the latest (at
\* most N) earlier media or mixed messages, in the original order: at most
\* 2*N entries, every one of the N most recent among them.
C19_SmartWindow ==
    IsRead =>
        IF WindowApplies
        THEN /\ last.result = ClaimSubsequence(last.stored,
                                               ClaimKept(last.stored, last.limit), 1)
             /\ Len(last.result) <= 2 * last.limit
        ELSE last.result = last.stored

ClaimKey(m) == <<m.role, Prefix(Text(m.content), 100), m.timestamp>>

\* C20: whenever smart windowing is applied the returned list holds no two
\* entries with the same (role, first 100 characters of content, timestamp)
\* and is sorted by timestamp ascending.
C20_WindowNoDuplicates ==
    (IsRead /\ WindowApplies) =>
        /\ \A i, j \in 1..Len(last.result) :
              i # j => ClaimKey(last.result[i]) # ClaimKey(last.result[j])
        /\ \A i, j \in 1..Len(last.result) :
              i < j => last.result[i].timestamp <= last.result[j].timestamp

\* a windowed read of a conversation two of whose kept messages share a key
C20_Witness ==
    /\ IsRead
    /\ WindowApplies
    /\ Len(last.result) >= 1
    /\ \E i, j \in ClaimKept(last.stored, last.limit) :
          i # j /\ ClaimKey(last.stored[i]) = ClaimKey(last.stored[j])

(***************************************************************************)
(* Claims about the tasks: the lock, the transaction, cancellation.        *)
(***************************************************************************)

\* C11: while the media fetch of one add_message is outstanding, another
\* task's call that waits for the store's lock can go ahead: the lock is not
\* held across the fetch.
C11_FetchOutsideLock ==
    \A t \in Tasks : pc[t] = "fetching" =>
        \A u \in Tasks \ {t} : pc[u] = "lock" => lock = Free

Holds(t, op) == lock = t /\ call[t].op = op

\* C12: add_message is atomic in the committed store: while the call is under
\* way, and after it was cancelled or has raised at any point, the committed
\* tables are what they were before it; after it returned they hold the
\* message row and the media_files rows of exactly the URLs whose download
\* came back, and nothing else is new.
C12_AppendAtomic ==
    /\ \A t \in Tasks : Holds(t, "add_message") => Tables = txn.before
    /\ (last.op = "add_message" /\ last.outcome \in {"cancelled", "raised"}) =>
          Tables = last.before
    /\ (last.op = "add_message" /\ last.outcome = "returned") =>
          /\ conversations = last.before.conversations
          /\ \E m \in msg_rows : /\ m.id = last.msg
                                  /\ m.conversation_id = last.conv
                                  /\ msg_rows = last.before.msg_rows \cup {m}
          /\ last.before.media_files \subseteq media_files
          /\ \A r \in media_files \ last.before.media_files : r.message_id = last.msg
          /\ {r.original_url : r \in media_files \ last.before.media_files} = last.ok_urls

\* an append cancelled after the media row of a downloaded URL was inserted
C12_Witness ==
    /\ last.op = "add_message"
    /\ last.outcome = "cancelled"
    /\ last.ok_urls # {}
    /\ \A m \in msg_rows : m.id # last.msg

FormerMessages(tables, conversation_id) ==
    {m.id : m \in {x \in tables.msg_rows : x.conversation_id = conversation_id}}

\* C13: delete_conversation removes media rows, then message rows, then the
\* conversation row in one transaction: while it is under way and after it was
\* interrupted before its commit the committed tables are what they were
\* before it; after it returned the conversation row, its messages and their
\* media_files rows are gone and nothing else.
C13_DeleteTransactional ==
    /\ \A t \in Tasks : Holds(t, "delete_conversation") =>
          /\ Tables = txn.before
          /\ txn.conversations # txn.before.conversations =>
                FormerMessages(txn, call[t].conv) = {}
          /\ txn.msg_rows # txn.before.msg_rows =>
                \A r \in txn.media_files :
                    r.message_id \notin FormerMessages(txn.before, call[t].conv)
    /\ (last.op = "delete_conversation" /\ last.outcome = "cancelled") =>
          Tables = last.before
    /\ (last.op = "delete_conversation" /\ last.outcome = "returned" /\ "before" \in DOMAIN last) =>
          /\ conversations = {c \in last.before.conversations : c.id # last.conv}
          /\ msg_rows = {m \in last.before.msg_rows : m.conversation_id # last.conv}
          /\ media_files = {r \in last.before.media_files :
                               r.message_id \notin FormerMessages(last.before, last.conv)}

\* a delete cancelled at its commit, every statement executed, of a
\* conversation that has a message with a media file
C13_Witness ==
    /\ last.op = "delete_conversation"
    /\ last.outcome = "cancelled"
    /\ last.at = "commit"
    /\ \E c \in conversations : c.id = last.conv
    /\ \E r \in media_files : r.message_id \in FormerMessages(Tables, last.conv)


(***************************************************************************)
(* get_conversations                                                       *)
(***************************************************************************)

ClaimMessagesOf(id) == {m \in msg_rows : m.conversation_id = id}

ClaimListed ==
    /\ last.outcome = "returned"
    /\ \A c \in conversations :
          Cardinality({i \in DOMAIN last.ret : last.ret[i].id = c.id}) = 1
    /\ \A i \in DOMAIN last.ret :
          /\ \E c \in conversations : c.id = last.ret[i].id
          /\ last.ret[i].message_count = Cardinality(ClaimMessagesOf(last.ret[i].id))
          /\ last.ret[i].media_count =
                Cardinality({m \in ClaimMessagesOf(last.ret[i].id) :
                               m.content_type \in {"media", "mixed"}})
    /\ \A i \in DOMAIN last.ret : i < Len(last.ret) =>
          last.ret[i].updated_at >= last.ret[i + 1].updated_at

\* C21: on an initialized store get_conversations returns every conversation
\* row exactly once, in descending order of updated_at, with message_count
\* the number of its messages and media_count the number of its messages of
\* content_type media or mixed (0 and 0 without messages); add_message
\* leaves every conversation row, and so its updated_at, as it was.
C21_ConversationList ==
    [][/\ (TablesExist' /\ last'.op = "get_conversations") => ClaimListed'
       /\ last'.op = "add_message" => conversations' = conversations]_vars


(***************************************************************************)
(* Claims about the web application and the client.                        *)
(***************************************************************************)

IsSend == last.op = "send"

ClaimConversationBot(id) == (CHOOSE c \in conversations : c.id = id).bot_name

\* The send found user messages in the conversation and names another bot
\* than the conversation's.
ClaimChangesBot ==
    /\ IsSend
    /\ last.locked
    /\ last.requested # None
    /\ last.requested # ClaimConversationBot(last.conv)

\* C22: a send to a conversation that has a user message, naming a bot other
\* than the conversation's, is answered with status 400 and a detail that
\* contains 'Cannot change bot mid-conversation' (WebSocket: an error message
\* with that text), persists no message and calls the remote bot not at all.
C22_BotChangeRejected ==
    ClaimChangesBot =>
        /\ last.status = IF last.task = Rest THEN "400" ELSE "error"
        /\ Contains(last.detail, "Cannot change bot mid-conversation")
        /\ last.users_saved = 0 /\ last.replies_saved = 0
        /\ last.remote_calls = 0

\* C23: a send to a conversation without user message is accepted whatever
\* bot it names; every call to the remote bot made for a send that found a
\* user message goes to the bot the conversation's first user message went to.
C23_LockStateMachine ==
    /\ (IsSend /\ ~last.locked /\ \E c \in conversations : c.id = last.conv)
          => last.in_client
    /\ \A i \in DOMAIN remote :
          remote[i].locked =>
             \E f \in session.first_bot : f.conv = remote[i].conv /\ f.bot = remote[i].bot

\* C25: a send_message call with save_history=True on an existing
\* conversation saves one user message, at most one assistant message and
\* calls the remote bot at most once, whether that call succeeds or raises.
C25_OneExchangePerSend ==
    (IsSend /\ last.in_client) =>
        /\ last.users_saved = 1
        /\ last.replies_saved <= 1
        /\ last.remote_calls <= 1

\* C28: two sends that both found the conversation without user message, as
\* concurrent sends do, are dispatched to one bot, so that the user messages
\* of the conversation all went to the same bot.
C28_ConcurrentSendsOneBot ==
    \A i, j \in DOMAIN remote :
        (remote[i].conv = remote[j].conv /\ ~remote[i].locked /\ ~remote[j].locked)
           => remote[i].bot = remote[j].bot


(***************************************************************************)
(* The message log                                                         *)
(***************************************************************************)

ClaimSameMessage(m, n) ==
    /\ m.role = n.role
    /\ m.content = n.content
    /\ m.content_type = n.content_type
    /\ m.conversation_id = n.conversation_id
    /\ m.timestamp = n.timestamp

\* C24: in every step of the store a message row that stays keeps its role,
\* content, content_type, conversation_id and timestamp, a conversation row
\* that stays keeps its bot_name and chat_mode, no id names two rows, a
\* message row appears only in an add_message, a conversation row only in a
\* create_conversation, and a row disappears only in a delete_conversation.
C24_AppendOnly ==
    [][/\ \A m \in msg_rows, n \in msg_rows' : m.id = n.id => ClaimSameMessage(m, n)
       /\ \A m, n \in msg_rows' : m.id = n.id => m = n
       /\ \A c \in conversations, d \in conversations' :
             c.id = d.id => c.bot_name = d.bot_name /\ c.chat_mode = d.chat_mode
       /\ \A c, d \in conversations' : c.id = d.id => c = d
       /\ (\E n \in msg_rows' : \A m \in msg_rows : m.id # n.id)
             => last'.op = "add_message"
       /\ (\E d \in conversations' : \A c \in conversations : c.id # d.id)
             => last'.op = "create_conversation"
       /\ (\/ \E m \in msg_rows : \A n \in msg_rows' : n.id # m.id
           \/ \E c \in conversations : \A d \in conversations' : d.id # c.id)
             => last'.op = "delete_conversation"]_vars

\* A read and a cleanup have run over a log of two messages, one with media.
C24_Witness ==
    /\ last.op \in {"get_conversation_messages", "cleanup_orphaned_media"}
    /\ Cardinality(msg_rows) = 2
    /\ \E m \in msg_rows : m.content_type = "media"
    /\ conversations # {}


(***************************************************************************)
(* Referential integrity and the media directory                           *)
(***************************************************************************)

\* C29: every messages row names the id of a conversations row, and every
\* media_files row names the id of a messages row.
C29_NoDanglingForeignKeys ==
    /\ \A m \in msg_rows : \E c \in conversations : c.id = m.conversation_id
    /\ \A f \in media_files : \E m \in msg_rows : m.id = f.message_id

\* C30: once the calls of the store have returned or raised, every file in
\* the media directory is the local_path of a media_files row.
C30_NoUntrackedFiles ==
    \A file \in disk : \E f \in media_files : f.local_path = file


(***************************************************************************)
(* Claims about the sessions of the CLI and of the Slack bots.             *)
(***************************************************************************)

ClaimPersisted(msg) ==
    {m \in msg_rows : /\ m.content = msg.content
                      /\ m.role = (IF msg.role = "bot" THEN "assistant" ELSE msg.role)}

\* C27: between the turns of a session every user message and every bot
\* reply of the transcript is stored exactly once, and all the stored
\* messages belong to one conversation.
C27_SessionPersistedOnce ==
    (pc[Session] = "idle" /\ session.app # None) =>
        /\ \A i \in DOMAIN session.conversation :
              Cardinality(ClaimPersisted(session.conversation[i])) = 1
        /\ \A m, n \in msg_rows : m.conversation_id = n.conversation_id

\* The texts of a list of messages, oldest first.
ClaimTexts(msgs) == [i \in 1..Len(msgs) |-> msgs[i].content]

\* C26: a chat message handled when the store already holds a user message
\* and its reply for the context is sent to the model after those stored
\* messages (all of them, as they fit the model's limits many times over),
\* and the new user message is the last message sent.
C26_SlackContextContinues ==
    \A k \in DOMAIN remote :
        /\ remote[k].sent # <<>>
        /\ remote[k].sent[Len(remote[k].sent)].content.tag = remote[k].text
        /\ Len(remote[k].stored) >= 2 =>
              [i \in 1..Len(remote[k].sent) |-> remote[k].sent[i].content.tag]
                 = Append(ClaimTexts(remote[k].stored), remote[k].text)

====
